---- MODULE Spec2Model ----
(***************************************************************************)
(* Hotel-Assistant: the complaint pipeline (analysis -> action planning -> *)
(* response drafting), its JSON extraction helper, its policy retriever    *)
(* and its orchestrator, alone and with two calls side by side.            *)
(*                                                                         *)
(* JSON / Python values are tagged records [t, v]:                         *)
(*   Str(s)  a text value          Num(n)  a number, in tenths (0.5 is 5)  *)
(*   Bool(b) a boolean             Null    JSON null / Python None         *)
(*   List(q) a list of values      Dict(m) a mapping                       *)
(*   Absent  the key is not in the mapping                                 *)
(* Text values of the model are never numerals ("0.5" is not in a domain). *)
(***************************************************************************)
EXTENDS Integers, Sequences, FiniteSets, TLC

Str(s) == [t |-> "str", v |-> s]
Num(n) == [t |-> "num", v |-> n]
Bool(b) == [t |-> "bool", v |-> b]
List(q) == [t |-> "list", v |-> q]
Dict(m) == [t |-> "dict", v |-> m]
Null == [t |-> "null", v |-> "null"]
Absent == [t |-> "absent", v |-> "absent"]

\* Python truthiness of a value held under a key (not data[key]).
Truthy(x) ==
    CASE x.t = "str" -> x.v # ""
      [] x.t = "num" -> x.v # 0
      [] x.t = "bool" -> x.v
      [] x.t = "list" -> Len(x.v) > 0
      [] x.t = "dict" -> TRUE
      [] OTHER -> FALSE

\* dict.get(key, default)
Get(m, key, default) == IF m[key] = Absent THEN default ELSE m[key]

(***************************************************************************)
(* Schema (app/schema.py) and the closed sets of the analysis stage.       *)
(***************************************************************************)
valid_severities == {"low", "medium", "high", "critical"}

valid_categories ==
    {"maintenance", "cleanliness", "amenities", "service", "billing",
     "noise", "privacy", "safety", "food_beverage", "parking",
     "check_in_out", "general", "positive_feedback"}

valid_priorities == {"low", "medium", "high", "urgent"}

AnalysisKeys ==
    {"severity_level", "category", "sentiment_score", "escalation_required",
     "key_issues", "summary_reasoning"}

ActionItemKeys == {"action", "responsible", "priority", "timeline"}

ActionPlanKeys ==
    {"internal_actions", "assigned_department", "estimated_resolution_time",
     "compensation_recommended", "guest_response_tone", "response_focus"}

ResponseKeys == {"guest_response", "response_type"}

\* the empty mapping {} over a key set
EmptyDict(keys) == [k \in keys |-> Absent]

\* not mapping
IsEmptyDict(m) == \A k \in DOMAIN m : m[k] = Absent

\* pydantic field validators (lax mode): each yields the validated value,
\* or Absent when the field is rejected.
StrField(x) == IF x.t = "str" THEN x ELSE Absent

PatternField(x, allowed) == IF x.t = "str" /\ x.v \in allowed THEN x ELSE Absent

\* float with ge/le bounds; a bool is coerced to 0.0 / 1.0
FloatField(x, ge, le) ==
    LET f == CASE x.t = "num" -> x
               [] x.t = "bool" -> Num(IF x.v THEN 10 ELSE 0)
               [] OTHER -> Absent
    IN  IF f # Absent /\ ge <= f.v /\ f.v <= le THEN f ELSE Absent

BoolField(x) == IF x.t = "bool" THEN x ELSE Absent

ListStrField(x) ==
    IF x.t = "list" /\ \A i \in 1..Len(x.v) : x.v[i].t = "str" THEN x ELSE Absent

\* Optional[str] = None
OptionalStrField(x) ==
    CASE x.t = "str" -> x
      [] x.t \in {"null", "absent"} -> Null
      [] OTHER -> Absent

\* AnalysisOutput(**data).model_dump(): [ok, rec]
AnalysisOutput(data) ==
    LET rec == [severity_level |-> PatternField(data.severity_level, valid_severities),
                category |-> StrField(data.category),
                sentiment_score |-> FloatField(data.sentiment_score, -10, 10),
                escalation_required |-> BoolField(data.escalation_required),
                key_issues |-> ListStrField(data.key_issues),
                summary_reasoning |-> StrField(data.summary_reasoning)]
    IN  [ok |-> \A k \in AnalysisKeys : rec[k] # Absent, rec |-> rec]

(***************************************************************************)
(* analysis_agent (app/agents/analysis_agent.py)                           *)
(*                                                                         *)
(* gen is the outcome of the generative call as the stage sees it:         *)
(*   kind "raise"      llm.invoke raised                                   *)
(*   kind "badjson"    safe_json_load(result.content) raised ValueError    *)
(*   kind "nonmapping" safe_json_load returned a list/number/text/...      *)
(*   kind "mapping"    safe_json_load returned the mapping gen.m           *)
(***************************************************************************)
\* lines 121-146: field-by-field repair of the extracted mapping
\* (RepairSeverityTypeOnly: a membership test that looks at the type only)
RepairSeverityTypeOnly(data) ==
    IF data.severity_level.t = "str" THEN data
    ELSE [data EXCEPT !.severity_level = Str("medium")]

RepairSeverity(data) ==
    IF ~(data.severity_level.t = "str" /\ data.severity_level.v \in valid_severities)
    THEN [data EXCEPT !.severity_level = Str("medium")]
    ELSE data

RepairCategory(data) ==
    IF ~(data.category.t = "str" /\ data.category.v \in valid_categories)
    THEN [data EXCEPT !.category = Str("general")]
    ELSE data

\* isinstance(x, (int, float)): bool is a subclass of int
IsIntOrFloat(x) == x.t \in {"num", "bool"}

AsNumber(x) == IF x.t = "bool" THEN (IF x.v THEN 10 ELSE 0) ELSE x.v

RepairSentiment(data) ==
    LET sentiment == Get(data, "sentiment_score", Num(0))
    IN  IF ~IsIntOrFloat(sentiment)
           \/ ~(-10 <= AsNumber(sentiment) /\ AsNumber(sentiment) <= 10)
        THEN [data EXCEPT !.sentiment_score = Num(0)]
        ELSE data

\* a derivation that trusts a boolean the model supplied
DeriveEscalationTrusting(data) ==
    IF data.escalation_required.t = "bool" THEN data
    ELSE [data EXCEPT !.escalation_required =
              Bool(data.severity_level.v \in {"high", "critical"})]

DeriveEscalation(data) ==
    [data EXCEPT !.escalation_required =
        Bool(data.severity_level.v \in {"high", "critical"})]

RepairAnalysis(data) ==
    DeriveEscalation(RepairSentiment(RepairCategory(RepairSeverity(data))))

fallback_analysis ==
    [severity_level |-> Str("medium"),
     category |-> Str("general"),
     sentiment_score |-> Num(0),
     escalation_required |-> Bool(FALSE),
     key_issues |-> List(<<Str("Unable to classify - defaulting to standard handling")>>),
     summary_reasoning |-> Str("Automatic fallback due to analysis error")]

\* a write whose shared_memory assignment names the analysis key
WriteBothWrongKey(state, key, rec) ==
    LET s1 == [state EXCEPT ![key] = rec]
    IN  IF state.has_shared_memory
        THEN [state |-> [s1 EXCEPT !.shared_memory["analysis"] =
                                       [k \in AnalysisKeys |->
                                           IF k \in DOMAIN rec THEN rec[k] ELSE Null]],
              exc |-> "none"]
        ELSE [state |-> s1, exc |-> "KeyError"]

\* a write that leaves the legacy top-level field alone
WriteBothSharedOnly(state, key, rec) ==
    IF state.has_shared_memory
    THEN [state |-> [state EXCEPT !.shared_memory[key] = rec], exc |-> "none"]
    ELSE [state |-> state, exc |-> "KeyError"]

\* state[key] = rec ; state["shared_memory"][key] = rec, the second
\* assignment raising KeyError on a state without "shared_memory".
\* Yields [state, exc].
WriteBoth(state, key, rec) ==
    LET s1 == [state EXCEPT ![key] = rec]
    IN  IF state.has_shared_memory
        THEN [state |-> [s1 EXCEPT !.shared_memory[key] = rec], exc |-> "none"]
        ELSE [state |-> s1, exc |-> "KeyError"]

\* Yields [state, exc, path, data]: the state the caller is left with, the
\* exception that propagated ("none" when the stage returned), the path
\* taken and the local data after repair.
analysis_agent(state, gen) ==
    LET data == IF gen.kind = "mapping" THEN RepairAnalysis(gen.m)
                ELSE EmptyDict(AnalysisKeys)
        validated == AnalysisOutput(data)
        try == IF gen.kind = "mapping" /\ validated.ok
               THEN WriteBoth(state, "analysis", validated.rec)
               ELSE [state |-> state, exc |-> "Exception"]
        handler == WriteBoth(try.state, "analysis", fallback_analysis)
    IN  IF try.exc = "none"
        THEN [state |-> try.state, exc |-> "none", path |-> "success", data |-> data]
        ELSE [state |-> handler.state, exc |-> handler.exc, path |-> "fallback",
              data |-> data]

(***************************************************************************)
(* Generated text is a sequence of tokens: FENCE is the three-backtick     *)
(* marker, SP one blank, NL one line break, "json" the language tag; any   *)
(* other token is a run of characters without blanks or backticks.         *)
(***************************************************************************)
\* three backticks, written with a three-character stand-in
FENCE == "^^^"
SP == " "
NL == "\n"
Whitespace == {SP, NL}

\* str.strip()
RECURSIVE LStrip(_)
LStrip(q) == IF Len(q) > 0 /\ Head(q) \in Whitespace THEN LStrip(Tail(q)) ELSE q

RECURSIVE RStrip(_)
RStrip(q) ==
    IF Len(q) > 0 /\ q[Len(q)] \in Whitespace THEN RStrip(SubSeq(q, 1, Len(q) - 1))
    ELSE q

Strip(q) == RStrip(LStrip(q))

\* str.split(FENCE): the list of segments between fence markers
RECURSIVE SplitFence(_, _)
SplitFence(q, cur) ==
    IF Len(q) = 0 THEN <<cur>>
    ELSE IF Head(q) = FENCE THEN <<cur>> \o SplitFence(Tail(q), <<>>)
    ELSE SplitFence(Tail(q), Append(cur, Head(q)))

Split(q) == SplitFence(q, <<>>)

\* the text of a token sequence and its length in characters
RECURSIVE Join(_)
Join(q) == IF Len(q) = 0 THEN "" ELSE Head(q) \o Join(Tail(q))

RECURSIVE CharLen(_)
CharLen(q) == IF Len(q) = 0 THEN 0 ELSE Len(Head(q)) + CharLen(Tail(q))

\* f-string rendering of a value
ToText(x) ==
    CASE x.t = "str" -> x.v
      [] x.t = "null" -> "None"
      [] OTHER -> "<" \o x.t \o ">"

(***************************************************************************)
(* safe_json_load (app/utils/json_parser.py)                               *)
(*                                                                         *)
(* JSON text is written with one token per JSON value: OBJ an object, ARR  *)
(* an array, NUM a digit, DEEP a run of opening brackets nested deeper     *)
(* than the interpreter lets the decoder recurse; PROSE is a word that is  *)
(* no JSON.  OBJJ is an object one of whose text values is "json", OBJS    *)
(* the same object with that value empty.                                  *)
(***************************************************************************)
TAG == "json"
OBJ == "{}"
OBJJ == "{\"format\":\"json\"}"
OBJS == "{\"format\":\"\"}"
ARR == "[]"
NUM == "1"
DEEP == "[[[[...["
PROSE == "Sure"

\* the mapping an object token serialises
JsonObject(tok) ==
    CASE tok = OBJJ -> Dict([format |-> Str("json")])
      [] tok = OBJS -> Dict([format |-> Str("")])
      [] OTHER -> Dict(<<>>)

Returned(v) == [kind |-> "return", value |-> v, exc |-> "none"]

Raised(e) == [kind |-> "raise", value |-> Absent, exc |-> e]

RECURSIVE AllNum(_)
AllNum(q) == Len(q) = 0 \/ (Head(q) = NUM /\ AllNum(Tail(q)))

\* json.loads(text): one JSON value with blanks around it, or
\* JSONDecodeError; RecursionError when the value nests too deep
JsonLoads(q) ==
    LET text == Strip(q)
    IN  CASE Len(text) = 0 -> Raised("JSONDecodeError")
          [] Len(text) > 0 /\ Head(text) = DEEP -> Raised("RecursionError")
          [] Len(text) = 1 /\ Head(text) \in {OBJ, OBJJ, OBJS} ->
                 Returned(JsonObject(Head(text)))
          [] Len(text) = 1 /\ Head(text) = ARR -> Returned(List(<<>>))
          [] Len(text) > 0 /\ AllNum(text) -> Returned(Num(10))
          [] OTHER -> Raised("JSONDecodeError")

\* str.replace("json", "") on the characters of one token: every
\* occurrence goes, the ones inside a JSON value too
ReplaceTag(tok) ==
    CASE tok = TAG -> ""
      [] tok = OBJJ -> OBJS
      [] OTHER -> tok

\* str.replace("json", "") on a text
RECURSIVE RemoveTag(_)
RemoveTag(q) ==
    IF Len(q) = 0 THEN <<>>
    ELSE IF ReplaceTag(Head(q)) = "" THEN RemoveTag(Tail(q))
    ELSE <<ReplaceTag(Head(q))>> \o RemoveTag(Tail(q))

\* lines 24-35: the body of the try block
SafeJsonLoadBody(content) ==
    LET text == Strip(content)
        parts == Split(text)
        inner ==
            IF Len(text) >= 2 /\ text[1] = FENCE /\ text[2] = TAG
            THEN IF Len(parts) >= 3 THEN Strip(RemoveTag(parts[2])) ELSE text
            ELSE IF Len(text) >= 1 /\ text[1] = FENCE
            THEN Strip(parts[2])
            ELSE text
    IN  JsonLoads(inner)

\* JSONDecodeError is a ValueError
IsValueError(e) == e \in {"ValueError", "JSONDecodeError"}

\* a handler that names the decoder error only
safe_json_loadNarrow(content) == SafeJsonLoadBody(content)

\* lines 37-40: any Exception of the body is turned into ValueError
safe_json_load(content) ==
    LET body == SafeJsonLoadBody(content)
    IN  IF body.kind = "raise" THEN Raised("ValueError") ELSE body

(***************************************************************************)
(* action_planning_agent (app/agents/action_planning_agent.py)             *)
(***************************************************************************)
\* ActionItem(**item).model_dump(), Absent when the item is rejected
ActionItem(item) ==
    IF item.t # "dict" THEN Absent
    ELSE LET rec == [action |-> StrField(item.v.action),
                     responsible |-> StrField(item.v.responsible),
                     priority |-> PatternField(item.v.priority, valid_priorities),
                     timeline |-> StrField(item.v.timeline)]
         IN  IF \A k \in ActionItemKeys : rec[k] # Absent THEN Dict(rec) ELSE Absent

\* List[ActionItem] with min_items = 1
ActionItemsField(x) ==
    IF x.t = "list" /\ Len(x.v) >= 1 /\ \A i \in 1..Len(x.v) : ActionItem(x.v[i]) # Absent
    THEN List([i \in 1..Len(x.v) |-> ActionItem(x.v[i])])
    ELSE Absent

\* ActionPlanOutput(**data).model_dump(): [ok, rec]
ActionPlanOutput(data) ==
    LET rec == [internal_actions |-> ActionItemsField(data.internal_actions),
                assigned_department |-> StrField(data.assigned_department),
                estimated_resolution_time |-> StrField(data.estimated_resolution_time),
                compensation_recommended |-> OptionalStrField(data.compensation_recommended),
                guest_response_tone |->
                    StrField(Get(data, "guest_response_tone", Str("professional and empathetic"))),
                response_focus |-> ListStrField(Get(data, "response_focus", List(<<>>)))]
    IN  [ok |-> \A k \in ActionPlanKeys : rec[k] # Absent, rec |-> rec]

IsHighOrCritical(severity) == severity.t = "str" /\ severity.v \in {"high", "critical"}

\* a synthesized item whose priority ignores the severity
ReviewActionMedium(room_number, severity) ==
    Dict([action |-> Str("Review and address complaint in room " \o room_number),
          responsible |-> Str("Guest Relations Manager"),
          priority |-> Str("medium"),
          timeline |-> Str("Within 1 hour")])

\* lines 168-173: the item synthesized when the mapping has no actions
ReviewAction(room_number, severity) ==
    Dict([action |-> Str("Review and address complaint in room " \o room_number),
          responsible |-> Str("Guest Relations Manager"),
          priority |-> Str(IF IsHighOrCritical(severity) THEN "high" ELSE "medium"),
          timeline |-> Str("Within 1 hour")])

\* a repair that tests only for the missing key, not for the empty value
RepairPlanKeysOnly(data, room_number, severity) ==
    LET d1 == IF data.assigned_department = Absent
              THEN [data EXCEPT !.assigned_department = Str("Guest Relations Department")]
              ELSE data
        d2 == IF d1.estimated_resolution_time = Absent
              THEN [d1 EXCEPT !.estimated_resolution_time = Str("Within 2 hours")]
              ELSE d1
        d3 == IF ~Truthy(d2.internal_actions)
              THEN [d2 EXCEPT !.internal_actions = List(<<ReviewAction(room_number, severity)>>)]
              ELSE d2
        d4 == IF d3.guest_response_tone = Absent
              THEN [d3 EXCEPT !.guest_response_tone = Str("professional and empathetic")]
              ELSE d3
        d5 == IF ~Truthy(d4.response_focus)
              THEN [d4 EXCEPT !.response_focus =
                       List(<<Str("Acknowledge concern"), Str("Provide resolution timeline")>>)]
              ELSE d4
    IN  d5

\* a repair that adds the review item to the actions of a severe complaint
RepairPlanAppending(data, room_number, severity) ==
    LET d1 == IF ~Truthy(data.assigned_department)
              THEN [data EXCEPT !.assigned_department = Str("Guest Relations Department")]
              ELSE data
        d2 == IF ~Truthy(d1.estimated_resolution_time)
              THEN [d1 EXCEPT !.estimated_resolution_time = Str("Within 2 hours")]
              ELSE d1
        d3 == IF ~Truthy(d2.internal_actions)
              THEN [d2 EXCEPT !.internal_actions = List(<<ReviewAction(room_number, severity)>>)]
              ELSE IF d2.internal_actions.t = "list" /\ IsHighOrCritical(severity)
              THEN [d2 EXCEPT !.internal_actions =
                       List(Append(d2.internal_actions.v, ReviewAction(room_number, severity)))]
              ELSE d2
        d4 == IF d3.guest_response_tone = Absent
              THEN [d3 EXCEPT !.guest_response_tone = Str("professional and empathetic")]
              ELSE d3
        d5 == IF ~Truthy(d4.response_focus)
              THEN [d4 EXCEPT !.response_focus =
                       List(<<Str("Acknowledge concern"), Str("Provide resolution timeline")>>)]
              ELSE d4
    IN  d5

\* lines 160-179: "basic validation" of the extracted plan mapping
RepairPlan(data, room_number, severity) ==
    LET d1 == IF ~Truthy(data.assigned_department)
              THEN [data EXCEPT !.assigned_department = Str("Guest Relations Department")]
              ELSE data
        d2 == IF ~Truthy(d1.estimated_resolution_time)
              THEN [d1 EXCEPT !.estimated_resolution_time = Str("Within 2 hours")]
              ELSE d1
        d3 == IF ~Truthy(d2.internal_actions)
              THEN [d2 EXCEPT !.internal_actions = List(<<ReviewAction(room_number, severity)>>)]
              ELSE d2
        d4 == IF d3.guest_response_tone = Absent
              THEN [d3 EXCEPT !.guest_response_tone = Str("professional and empathetic")]
              ELSE d3
        d5 == IF ~Truthy(d4.response_focus)
              THEN [d4 EXCEPT !.response_focus =
                       List(<<Str("Acknowledge concern"), Str("Provide resolution timeline")>>)]
              ELSE d4
    IN  d5

\* the fallback with the text "None" in place of None
fallback_actionsText(category, severity) ==
    [internal_actions |-> List(<<Dict(
        [action |-> Str("Contact guest and address complaint regarding " \o ToText(category)),
         responsible |-> Str("Guest Relations Department"),
         priority |-> Str(IF IsHighOrCritical(severity) THEN "high" ELSE "medium"),
         timeline |-> Str("Within 1 hour")])>>),
     assigned_department |-> Str("Guest Relations Department"),
     estimated_resolution_time |-> Str("Within 2 hours"),
     compensation_recommended |-> Str("None"),
     guest_response_tone |-> Str("professional and empathetic"),
     response_focus |-> List(<<Str("Acknowledge issue"), Str("Provide solution")>>)]

fallback_actions(category, severity) ==
    [internal_actions |-> List(<<Dict(
        [action |-> Str("Contact guest and address complaint regarding " \o ToText(category)),
         responsible |-> Str("Guest Relations Department"),
         priority |-> Str(IF IsHighOrCritical(severity) THEN "high" ELSE "medium"),
         timeline |-> Str("Within 1 hour")])>>),
     assigned_department |-> Str("Guest Relations Department"),
     estimated_resolution_time |-> Str("Within 2 hours"),
     compensation_recommended |-> Null,
     guest_response_tone |-> Str("professional and empathetic"),
     response_focus |-> List(<<Str("Acknowledge issue"), Str("Provide solution")>>)]

\* state.get("shared_memory", {}).get(key, {})
SharedGet(state, key, keys) ==
    IF state.has_shared_memory THEN state.shared_memory[key] ELSE EmptyDict(keys)

\* lines 47 and 73 sit outside the try block: join(key_issues) needs
\* text items (or one text), the :.2f format needs an int or float
PlanPromptRaises(key_issues, sentiment_score) ==
    \/ ~(key_issues.t = "str" \/ ListStrField(key_issues) # Absent)
    \/ ~IsIntOrFloat(sentiment_score)

\* Yields [state, exc, path, data] as analysis_agent does.
action_planning_agent(state, gen) ==
    LET sm == SharedGet(state, "analysis", AnalysisKeys)
        analysis == IF IsEmptyDict(sm) THEN state.analysis ELSE sm
        severity == Get(analysis, "severity_level", Str("medium"))
        category == Get(analysis, "category", Str("general"))
        key_issues == Get(analysis, "key_issues", List(<<>>))
        sentiment_score == Get(analysis, "sentiment_score", Num(0))
        data == IF gen.kind = "mapping" THEN RepairPlan(gen.m, state.room_number, severity)
                ELSE EmptyDict(ActionPlanKeys)
        validated == ActionPlanOutput(data)
        try == IF gen.kind = "mapping" /\ validated.ok
               THEN WriteBoth(state, "actions", validated.rec)
               ELSE [state |-> state, exc |-> "Exception"]
        handler == WriteBoth(try.state, "actions", fallback_actions(category, severity))
    IN  IF PlanPromptRaises(key_issues, sentiment_score)
        THEN [state |-> state, exc |-> "TypeError", path |-> "raised", data |-> data]
        ELSE IF try.exc = "none"
        THEN [state |-> try.state, exc |-> "none", path |-> "success", data |-> data]
        ELSE [state |-> handler.state, exc |-> handler.exc, path |-> "fallback",
              data |-> data]

(***************************************************************************)
(* HotelPolicyRAG (app/tools/rag_tool.py)                                  *)
(*                                                                         *)
(* A query is a sequence of words (the text is the words joined by         *)
(* blanks).  No bucket name holds a blank, so a bucket name occurs in the  *)
(* text exactly when it occurs inside one of the words.  Passages and      *)
(* indexed documents are written by their opening words.                   *)
(***************************************************************************)
RAG_TOP_K == 2

\* lines 22-24: the object after construction
HotelPolicyRAG ==
    [vectorstore |-> [is_none |-> TRUE, documents |-> <<>>],
     initialized |-> FALSE,
     has_mock_policies |-> FALSE]

\* lines 79-105, in the order of the dict literal
MockCategories == <<"maintenance", "cleanliness", "service", "positive_feedback", "general">>

mock_policies ==
    [maintenance |-> <<"Standard Response Time: Maintenance requests",
                       "Compensation Policy: For AC/heating failures",
                       "Escalation: All maintenance issues">>,
     cleanliness |-> <<"Room Standards: All rooms",
                       "Compensation Policy: For cleanliness issues",
                       "Health & Safety: Pest sightings">>,
     service |-> <<"Service Recovery: For service failures",
                   "Compensation Guidelines: Delayed service",
                   "Guest Satisfaction Priority: All guest complaints">>,
     positive_feedback |-> <<"Recognition Policy: Positive feedback",
                             "Guest Relations: Thank guests",
                             "Team Morale: Outstanding feedback">>,
     general |-> <<"Standard Complaint Handling: Acknowledge immediately",
                   "Compensation Authority: Front desk",
                   "Guest Relations: All complaints logged">>]

\* lines 77-107
use_mock_policies(self) ==
    [self EXCEPT !.has_mock_policies = TRUE, !.initialized = TRUE]

\* lines 28-70: the body of the try block of initialize; env is what the
\* file system and the embedding backend do.  Yields [self, exc].
InitializeBody(self, env) ==
    IF env.file = "missing" THEN [self |-> use_mock_policies(self), exc |-> "none"]
    ELSE IF env.file = "unreadable" THEN [self |-> self, exc |-> "JSONDecodeError"]
    ELSE IF \E i \in 1..Len(env.policies) : ~env.policies[i].has_content
    THEN [self |-> self, exc |-> "KeyError"]
    ELSE IF Len(env.policies) = 0 THEN [self |-> use_mock_policies(self), exc |-> "none"]
    ELSE IF env.backend = "raise" THEN [self |-> self, exc |-> "ConnectionError"]
    ELSE [self |-> [self EXCEPT
                       !.vectorstore =
                           [is_none |-> FALSE,
                            documents |-> [i \in 1..Len(env.policies) |->
                                              env.policies[i].content]],
                       !.initialized = TRUE],
          exc |-> "none"]

\* lines 72-75: any Exception of the body falls back to the mock policies
initialize(self, env) ==
    LET body == InitializeBody(self, env)
    IN  IF body.exc = "none" THEN body.self ELSE use_mock_policies(body.self)

\* str.lower() of a word
Lower(w) ==
    CASE w = "MAINTENANCE" -> "maintenance"
      [] w = "Service" -> "service"
      [] w = "Cleanliness" -> "cleanliness"
      [] OTHER -> w

\* the bucket names that occur inside a word (category in word)
NamesIn(w) ==
    CASE w = "maintenance" -> {"maintenance"}
      [] w = "cleanliness" -> {"cleanliness"}
      [] w = "service" -> {"service"}
      [] w = "unserviceable" -> {"service"}
      [] w = "positive_feedback" -> {"positive_feedback"}
      [] w = "general" -> {"general"}
      [] OTHER -> {}

\* category in text
OccursIn(category, text) == \E i \in 1..Len(text) : category \in NamesIn(text[i])

\* list[:k] for k >= 0
Prefix(q, k) == SubSeq(q, 1, IF k < Len(q) THEN k ELSE Len(q))

\* a keyword match on the query as it was passed
MockLookupCaseSensitive(query, k) ==
    LET matching == {i \in 1..Len(MockCategories) : OccursIn(MockCategories[i], query)}
    IN  IF matching # {}
        THEN LET first == CHOOSE i \in matching : \A j \in matching : i <= j
             IN  Prefix(mock_policies[MockCategories[first]], k)
        ELSE Prefix(mock_policies["general"], k)

\* lines 136-148: the first bucket, in dict order, whose name occurs in the
\* lower-cased query; the general bucket when none does
MockLookup(query, k) ==
    LET query_lower == [i \in 1..Len(query) |-> Lower(query[i])]
        matching == {i \in 1..Len(MockCategories) : OccursIn(MockCategories[i], query_lower)}
    IN  IF matching # {}
        THEN LET first == CHOOSE i \in matching : \A j \in matching : i <= j
             IN  Prefix(mock_policies[MockCategories[first]], k)
        ELSE Prefix(mock_policies["general"], k)

\* the k argument of retrieve: not passed (None) or an integer
KArg(given, n) == [given |-> given, n |-> n]

\* line 124: k = k or settings.RAG_TOP_K
EffectiveK(k) == IF k.given /\ k.n # 0 THEN k.n ELSE RAG_TOP_K

\* lines 127-148: the body of the try block of retrieve; search is what
\* similarity_search does: it raises, or ranks the indexed documents
RetrieveBody(self, query, k, search) ==
    IF ~self.vectorstore.is_none
    THEN IF search.kind = "raise" THEN Raised("ConnectionError")
         ELSE Returned(Prefix(search.ranking, k))
    ELSE IF ~self.has_mock_policies THEN Raised("AttributeError")
    ELSE Returned(MockLookup(query, k))

\* a retrieve without the try block
retrieveUnguarded(self, query, k, search) ==
    IF ~self.initialized THEN Returned(<<>>)
    ELSE RetrieveBody(self, query, EffectiveK(k), search)

\* lines 109-152
retrieve(self, query, k, search) ==
    IF ~self.initialized THEN Returned(<<>>)
    ELSE LET body == RetrieveBody(self, query, EffectiveK(k), search)
         IN  IF body.kind = "raise" THEN Returned(<<>>) ELSE body

\* the orders in which similarity_search can rank the indexed documents
Rankings(documents) ==
    {r \in [1..Len(documents) -> {documents[i] : i \in 1..Len(documents)}] :
        \A i, j \in 1..Len(documents) : r[i] = r[j] => i = j}

SearchOutcomes(self) ==
    IF self.vectorstore.is_none THEN {[kind |-> "unused", ranking |-> <<>>]}
    ELSE {[kind |-> "raise", ranking |-> <<>>]}
         \cup {[kind |-> "docs", ranking |-> r] : r \in Rankings(self.vectorstore.documents)}

\* str.split() of the texts the stages handle
WordsOf(text) ==
    CASE text = "Air conditioner not working" -> <<"Air", "conditioner", "not", "working">>
      [] text = "No response from front desk" ->
             <<"No", "response", "from", "front", "desk">>
      [] text = "Positive staff feedback" -> <<"Positive", "staff", "feedback">>
      [] text = "Room cleanliness praised" -> <<"Room", "cleanliness", "praised">>
      [] text = "Unable to classify - defaulting to standard handling" ->
             <<"Unable", "to", "classify", "-", "defaulting", "to", "standard", "handling">>
      [] OTHER -> <<text>>

\* ' '.join(key_issues), as words
RECURSIVE IssueWords(_)
IssueWords(items) ==
    IF Len(items) = 0 THEN <<>> ELSE WordsOf(Head(items).v) \o IssueWords(Tail(items))

\* action_planning_agent.py line 47: the query of the plan stage.  A
\* key_issues that is one text joins its characters, which spell no word.
rag_query(category, severity, key_issues) ==
    <<ToText(category), ToText(severity), "severity", "complaint", "resolution:">>
    \o (IF key_issues.t = "list" THEN IssueWords(key_issues.v) ELSE <<>>)

\* action_planning_agent.py line 47: join(key_issues) raises
QueryRaises(state) ==
    LET sm == SharedGet(state, "analysis", AnalysisKeys)
        analysis == IF IsEmptyDict(sm) THEN state.analysis ELSE sm
        key_issues == Get(analysis, "key_issues", List(<<>>))
    IN  ~(key_issues.t = "str" \/ ListStrField(key_issues) # Absent)

\* action_planning_agent.py lines 30-48: the plan stage reads the analysis
\* and asks the retriever, self, for three passages
PlanRetrieval(state, self, search) ==
    LET sm == SharedGet(state, "analysis", AnalysisKeys)
        analysis == IF IsEmptyDict(sm) THEN state.analysis ELSE sm
        severity == Get(analysis, "severity_level", Str("medium"))
        category == Get(analysis, "category", Str("general"))
        key_issues == Get(analysis, "key_issues", List(<<>>))
        query == rag_query(category, severity, key_issues)
    IN  [self |-> self, query |-> query, k |-> KArg(TRUE, 3), search |-> search,
         out |-> retrieve(self, query, KArg(TRUE, 3), search)]

(***************************************************************************)
(* response_agent (app/agents/response_agent.py)                           *)
(*                                                                         *)
(* gen.kind is "raise" (llm.invoke raised) or "content", gen.content then  *)
(* being the token sequence of result.content.                             *)
(***************************************************************************)
MinResponseLen == 50

\* a cleaning that strips blanks but keeps the fenced text whole
CleanMarkdownWhole(content) == Strip(content)

\* lines 80-86: strip, then keep the first fenced segment
CleanMarkdown(content) ==
    LET response_text == Strip(content)
    IN  IF Len(response_text) > 0 /\ Head(response_text) = FENCE
        THEN LET parts == Split(response_text)
             IN  Strip(IF Len(parts) > 1 THEN parts[2] ELSE response_text)
        ELSE response_text

ThankYouFallback(guest_name) ==
    "Dear " \o guest_name
    \o ",\n\nThank you for your wonderful feedback! We're delighted you enjoyed your stay. We look forward to welcoming you back!\n\nWarm regards,\nGuest Relations"

ApologyFallback(guest_name, department, estimated_time) ==
    "Dear " \o guest_name
    \o ",\n\nWe apologize for the inconvenience. Our " \o department
    \o " is addressing this and will resolve it within " \o estimated_time
    \o ".\n\nBest regards,\nGuest Relations"

\* a test that looks at the sentiment alone
IsPositiveFeedbackSentimentOnly(sentiment_score, category) ==
    AsNumber(sentiment_score) > 5

\* line 41
IsPositiveFeedback(sentiment_score, category) ==
    AsNumber(sentiment_score) > 5 /\ category = Str("positive_feedback")

\* a tag that is positive for positive feedback
ResponseTypeShortTag(is_positive_feedback) ==
    Str(IF is_positive_feedback THEN "positive" ELSE "complaint")

\* line 94
ResponseType(is_positive_feedback) ==
    Str(IF is_positive_feedback THEN "positive_feedback" ELSE "complaint")

\* sentiment_score > 0.5 raises TypeError on a non-number (outside the try)
ResponsePromptRaises(sentiment_score) == ~IsIntOrFloat(sentiment_score)

response_agent(state, gen) ==
    LET analysis == SharedGet(state, "analysis", AnalysisKeys)
        actions == SharedGet(state, "actions", ActionPlanKeys)
        category == Get(analysis, "category", Str("general"))
        sentiment_score == Get(analysis, "sentiment_score", Num(0))
        estimated_time == Get(actions, "estimated_resolution_time", Str("soon"))
        department == Get(actions, "assigned_department", Str("our team"))
        is_positive_feedback == IsPositiveFeedback(sentiment_score, category)
        response_text == IF gen.kind = "content" THEN CleanMarkdown(gen.content) ELSE <<>>
        response_data ==
            [guest_response |-> Str(Join(response_text)),
             response_type |-> ResponseType(is_positive_feedback)]
        fallback ==
            IF is_positive_feedback THEN ThankYouFallback(state.guest_name)
            ELSE ApologyFallback(state.guest_name, ToText(department), ToText(estimated_time))
        fallback_data ==
            [guest_response |-> Str(fallback), response_type |-> Str("fallback")]
        \* the success path writes shared_memory first, then the mirror
        try == IF gen.kind = "content" /\ CharLen(response_text) >= MinResponseLen
               THEN IF state.has_shared_memory
                    THEN [state |-> [state EXCEPT !.shared_memory.response = response_data,
                                                  !.response = response_data],
                          exc |-> "none"]
                    ELSE [state |-> state, exc |-> "KeyError"]
               ELSE [state |-> state, exc |-> "Exception"]
        \* the handler writes shared_memory first too
        handler == IF state.has_shared_memory
                   THEN [state |-> [state EXCEPT !.shared_memory.response = fallback_data,
                                                 !.response = fallback_data],
                         exc |-> "none"]
                   ELSE [state |-> state, exc |-> "KeyError"]
    IN  IF ResponsePromptRaises(sentiment_score)
        THEN [state |-> state, exc |-> "TypeError", path |-> "raised"]
        ELSE IF try.exc = "none"
        THEN [state |-> try.state, exc |-> "none", path |-> "success"]
        ELSE [state |-> handler.state, exc |-> handler.exc, path |-> "fallback"]

(***************************************************************************)
(* The orchestrator (app/graph/workflow.py)                                *)
(***************************************************************************)
Stages == <<"analyze", "plan_actions", "draft_response">>

\* a graph whose edges are wired in the wrong order
build_workflowMiswired ==
    [entry |-> "analyze",
     edges |-> [analyze |-> "draft_response",
                plan_actions |-> "END",
                draft_response |-> "plan_actions"]]

build_workflow ==
    [entry |-> "analyze",
     edges |-> [analyze |-> "plan_actions",
                plan_actions |-> "draft_response",
                draft_response |-> "END"]]

WORKFLOW == build_workflow

\* process_complaint lines 83-104: the state a run starts from
initial_state(complaint_text, guest_name, room_number, contact_info) ==
    [guest_name |-> guest_name,
     room_number |-> room_number,
     contact_info |-> contact_info,
     complaint_text |-> complaint_text,
     has_shared_memory |-> TRUE,
     shared_memory |-> [analysis |-> EmptyDict(AnalysisKeys),
                        actions |-> EmptyDict(ActionPlanKeys),
                        response |-> EmptyDict(ResponseKeys),
                        metadata |-> EmptyDict({})],
     analysis |-> EmptyDict(AnalysisKeys),
     actions |-> EmptyDict(ActionPlanKeys),
     response |-> EmptyDict(ResponseKeys),
     stored_successfully |-> FALSE,
     notification_sent |-> FALSE]

ResultKeys ==
    {"guest_name", "room_number", "contact_info", "complaint_text",
     "analysis", "actions", "response",
     "severity_level", "category", "sentiment_score", "escalation_required",
     "key_issues", "summary_reasoning",
     "internal_actions", "assigned_department", "estimated_resolution_time",
     "compensation_recommended", "guest_response_tone", "response_focus",
     "guest_response", "response_type",
     "stored_successfully", "notification_sent",
     "processed_at", "error", "workflow_failed"}

NoResult == EmptyDict(ResultKeys)

\* dict.get(key) with no default yields None for a missing key
GetOrNone(m, key) == Get(m, key, Null)

\* a projection whose flattened department reads the wrong key
BuildResultWrongKey(final_state) ==
    LET shared == final_state.shared_memory
        analysis == shared.analysis
        actions == shared.actions
        response == shared.response
    IN  [NoResult EXCEPT
            !.guest_name = Str(final_state.guest_name),
            !.room_number = Str(final_state.room_number),
            !.contact_info = Str(final_state.contact_info),
            !.complaint_text = Str(final_state.complaint_text),
            !.analysis = Dict(analysis),
            !.actions = Dict(actions),
            !.response = Dict(response),
            !.severity_level = GetOrNone(analysis, "severity_level"),
            !.category = GetOrNone(analysis, "category"),
            !.sentiment_score = GetOrNone(analysis, "sentiment_score"),
            !.escalation_required = GetOrNone(analysis, "escalation_required"),
            !.key_issues = Get(analysis, "key_issues", List(<<>>)),
            !.summary_reasoning = GetOrNone(analysis, "summary_reasoning"),
            !.internal_actions = Get(actions, "internal_actions", List(<<>>)),
            !.assigned_department = GetOrNone(actions, "guest_response_tone"),
            !.estimated_resolution_time = GetOrNone(actions, "estimated_resolution_time"),
            !.compensation_recommended = GetOrNone(actions, "compensation_recommended"),
            !.guest_response_tone = GetOrNone(actions, "guest_response_tone"),
            !.response_focus = Get(actions, "response_focus", List(<<>>)),
            !.guest_response = GetOrNone(response, "guest_response"),
            !.response_type = GetOrNone(response, "response_type"),
            !.stored_successfully = Bool(final_state.stored_successfully),
            !.notification_sent = Bool(final_state.notification_sent)]

\* a projection that reports every record as stored
BuildResultStored(final_state) ==
    LET shared == final_state.shared_memory
        analysis == shared.analysis
        actions == shared.actions
        response == shared.response
    IN  [NoResult EXCEPT
            !.guest_name = Str(final_state.guest_name),
            !.room_number = Str(final_state.room_number),
            !.contact_info = Str(final_state.contact_info),
            !.complaint_text = Str(final_state.complaint_text),
            !.analysis = Dict(analysis),
            !.actions = Dict(actions),
            !.response = Dict(response),
            !.severity_level = GetOrNone(analysis, "severity_level"),
            !.category = GetOrNone(analysis, "category"),
            !.sentiment_score = GetOrNone(analysis, "sentiment_score"),
            !.escalation_required = GetOrNone(analysis, "escalation_required"),
            !.key_issues = Get(analysis, "key_issues", List(<<>>)),
            !.summary_reasoning = GetOrNone(analysis, "summary_reasoning"),
            !.internal_actions = Get(actions, "internal_actions", List(<<>>)),
            !.assigned_department = GetOrNone(actions, "assigned_department"),
            !.estimated_resolution_time = GetOrNone(actions, "estimated_resolution_time"),
            !.compensation_recommended = GetOrNone(actions, "compensation_recommended"),
            !.guest_response_tone = GetOrNone(actions, "guest_response_tone"),
            !.response_focus = Get(actions, "response_focus", List(<<>>)),
            !.guest_response = GetOrNone(response, "guest_response"),
            !.response_type = GetOrNone(response, "response_type"),
            !.stored_successfully = Bool(TRUE),
            !.notification_sent = Bool(final_state.notification_sent)]

\* lines 114-153: the flattened result of a completed run
BuildResult(final_state) ==
    LET shared == final_state.shared_memory
        analysis == shared.analysis
        actions == shared.actions
        response == shared.response
    IN  [NoResult EXCEPT
            !.guest_name = Str(final_state.guest_name),
            !.room_number = Str(final_state.room_number),
            !.contact_info = Str(final_state.contact_info),
            !.complaint_text = Str(final_state.complaint_text),
            !.analysis = Dict(analysis),
            !.actions = Dict(actions),
            !.response = Dict(response),
            !.severity_level = GetOrNone(analysis, "severity_level"),
            !.category = GetOrNone(analysis, "category"),
            !.sentiment_score = GetOrNone(analysis, "sentiment_score"),
            !.escalation_required = GetOrNone(analysis, "escalation_required"),
            !.key_issues = Get(analysis, "key_issues", List(<<>>)),
            !.summary_reasoning = GetOrNone(analysis, "summary_reasoning"),
            !.internal_actions = Get(actions, "internal_actions", List(<<>>)),
            !.assigned_department = GetOrNone(actions, "assigned_department"),
            !.estimated_resolution_time = GetOrNone(actions, "estimated_resolution_time"),
            !.compensation_recommended = GetOrNone(actions, "compensation_recommended"),
            !.guest_response_tone = GetOrNone(actions, "guest_response_tone"),
            !.response_focus = Get(actions, "response_focus", List(<<>>)),
            !.guest_response = GetOrNone(response, "guest_response"),
            !.response_type = GetOrNone(response, "response_type"),
            !.stored_successfully = Bool(final_state.stored_successfully),
            !.notification_sent = Bool(final_state.notification_sent)]

\* lines 156-161: the summary log calls .upper() on the severity and formats
\* the sentiment with :.2f; either raises on a None
SummaryRaises(result) ==
    \/ result.severity_level.t # "str"
    \/ ~IsIntOrFloat(result.sentiment_score)

\* lines 169-181: the result of a run whose stage sequence raised
FailureResult(guest_name, room_number, error) ==
    [NoResult EXCEPT
        !.guest_name = Str(guest_name),
        !.room_number = Str(room_number),
        !.error = Str(error),
        !.workflow_failed = Bool(TRUE)]

\* store_complaint_history(record): file is [status, records] with status
\* "missing", "array" (a JSON array) or "corrupt"; io is what the file
\* system does to this call: "ok", "mkdir_error" (before the read),
\* "open_error" (opening for writing fails) or "dump_error" (the write
\* fails after the file was truncated).  Yields the file and the record as
\* the call leaves them: the stamp is set on the record of the caller once
\* the existing file has been read.  StoreBody is the try block (lines
\* 46-62) and yields the exception that left it as well.
StoreBody(file, record, io) ==
    IF io = "mkdir_error"
    THEN [file |-> file, record |-> record, saved |-> FALSE, exc |-> "OSError"]
    ELSE IF file.status = "corrupt"
    THEN [file |-> file, record |-> record, saved |-> FALSE, exc |-> "JSONDecodeError"]
    ELSE LET existing == IF file.status = "array" THEN file.records ELSE <<>>
             stamped == [record EXCEPT !.processed_at = Str("now")]
         IN  CASE io = "ok" ->
                    [file |-> [status |-> "array", records |-> Append(existing, stamped)],
                     record |-> stamped, saved |-> TRUE, exc |-> "none"]
               [] io = "open_error" ->
                    [file |-> file, record |-> stamped, saved |-> FALSE, exc |-> "OSError"]
               [] OTHER ->
                    [file |-> [status |-> "corrupt", records |-> <<>>],
                     record |-> stamped, saved |-> FALSE, exc |-> "OSError"]

\* a store without the except clause
store_complaint_historyRaising(file, record, io) == StoreBody(file, record, io)

\* lines 63-64: any Exception of the body is logged and swallowed
store_complaint_history(file, record, io) ==
    [StoreBody(file, record, io) EXCEPT !.exc = "none"]

(***************************************************************************)
(* Input domains.                                                          *)
(***************************************************************************)
GuestNames == {"", "Rahul Mehta"}
RoomNumbers == {"312"}
ContactInfos == {"rahul.mehta@email.com"}
ComplaintTexts == {"The air conditioner stopped working at night."}

FailedGens == {[kind |-> k, m |-> <<>>] : k \in {"raise", "badjson", "nonmapping"}}

MappingGens(mappings) == FailedGens \cup {[kind |-> "mapping", m |-> m] : m \in mappings}

\* the mappings a stage called on its own is tried with
AnalysisMappings ==
    [severity_level : {Absent, Str("low"), Str("high"), Str("critical"), Str("HIGH")},
     category : {Absent, Str("maintenance"), Str("positive_feedback"), Str("spa")},
     sentiment_score : {Absent, Null, Num(-11), Num(-10), Num(6), Num(10), Num(11),
                        Bool(TRUE), Str("very negative")},
     escalation_required : {Absent, Bool(TRUE), Bool(FALSE), Str("yes")},
     key_issues : {Absent, List(<<Str("Air conditioner not working")>>)},
     summary_reasoning : {Absent, Str("Essential amenity failed")}]

ValidItem ==
    Dict([action |-> Str("Send technician to room"), responsible |-> Str("Engineering"),
          priority |-> Str("urgent"), timeline |-> Str("Within 20 minutes")])

BadPriorityItem ==
    Dict([action |-> Str("Call the guest"), responsible |-> Str("Front Desk"),
          priority |-> Str("immediate"), timeline |-> Str("Within 10 minutes")])

NoPriorityItem ==
    Dict([action |-> Str("Call the guest"), responsible |-> Str("Front Desk"),
          priority |-> Absent, timeline |-> Str("Within 10 minutes")])

PlanMappings ==
    [internal_actions : {Absent, List(<<>>), List(<<ValidItem>>),
                         List(<<ValidItem, BadPriorityItem>>), List(<<NoPriorityItem>>)},
     assigned_department : {Absent, Str(""), Str("Engineering"), Num(4)},
     estimated_resolution_time : {Absent, Str(""), Str("30 minutes")},
     compensation_recommended : {Absent, Null, Str("25% room discount")},
     guest_response_tone : {Absent, Null, Str("apologetic and empathetic")},
     response_focus : {Absent, List(<<Str("Timeline commitment")>>)}]

\* the mappings the stages of a whole run are tried with
RunAnalysisMappings ==
    [severity_level : {Absent, Str("low"), Str("critical")},
     category : {Str("positive_feedback"), Str("spa")},
     sentiment_score : {Absent, Num(6), Num(-11)},
     escalation_required : {Bool(FALSE)},
     key_issues : {Absent, List(<<Str("Air conditioner not working")>>)},
     summary_reasoning : {Str("Essential amenity failed")}]

RunPlanMappings ==
    [internal_actions : {Absent, List(<<ValidItem>>), List(<<ValidItem, BadPriorityItem>>)},
     assigned_department : {Str(""), Str("Engineering")},
     estimated_resolution_time : {Absent, Str("30 minutes")},
     compensation_recommended : {Null, Str("25% room discount")},
     guest_response_tone : {Absent, Null},
     response_focus : {Absent}]

Word25 == "We-are-sorry-about-the-AC"
Word30 == "Thank-you-for-the-kind-words!!"

ResponseContents ==
    {<<>>,
     <<Word25>>,
     <<Word25, SP, Word25>>,
     <<SP, Word25, Word25, NL>>,
     <<FENCE, NL, Word30, SP, Word30, NL, FENCE>>,
     <<FENCE, Word25, FENCE, Word30, Word30>>,
     <<Word25, FENCE, Word25>>}

ResponseGens ==
    {[kind |-> "raise", content |-> <<>>]}
    \cup {[kind |-> "content", content |-> c] : c \in ResponseContents}

HistoryIO == {"ok", "mkdir_error", "open_error", "dump_error"}

(***************************************************************************)
(* State.                                                                  *)
(***************************************************************************)
VARIABLES
    pc,        \* "idle", the graph node about to run, "END", "returned";
               \* "direct", "stage_returned", "stage_raised" for a stage
               \* called on its own
    state,     \* the ComplaintState handed from stage to stage
    gen,       \* what the last stage got from its generative call
    path,      \* the path the last stage took: "success" or "fallback"
    data,      \* the local mapping of the last stage after repair
    ran,       \* the nodes that have run, in order
    raised,    \* the nodes whose llm.invoke raised
    result,    \* what process_complaint returned
    escaped,   \* an exception escaped the stage sequence
    history,   \* data/complaints_history.json
    content,   \* the text handed to safe_json_load
    loaded,    \* what safe_json_load did with it
    policy_rag,  \* the global HotelPolicyRAG object
    retrieved,   \* the last call of policy_rag.retrieve and what it gave
    runs,        \* the calls of process_complaint that run side by side
    before       \* data/complaints_history.json as it was before them

vars == <<pc, state, gen, path, data, ran, raised, result, escaped, history,
          content, loaded, policy_rag, retrieved, runs, before>>

NoState == initial_state("", "", "", "")

NoGen == [kind |-> "none", m |-> <<>>]

NoRetrieval ==
    [self |-> HotelPolicyRAG, query |-> <<>>, k |-> KArg(FALSE, 0),
     search |-> [kind |-> "unused", ranking |-> <<>>], out |-> Raised("none")]

\* two calls are enough for one to get between the steps of the other
Runs == {1, 2}

\* a call that has not been made: where it stands, its four arguments, its
\* ComplaintState, what its stages got from their generative calls, the
\* result dict (the record handed to store_complaint_history is the same
\* object), the list store_complaint_history read, whether it logged the
\* save, and the exception it logged instead
NoRun ==
    [pc |-> "idle", args |-> <<>>, state |-> NoState, got |-> <<>>,
     result |-> NoResult, local |-> <<>>, saved |-> FALSE, exc |-> "none"]

NoRuns == [c \in Runs |-> NoRun]

NoFile == [status |-> "missing", records |-> <<>>]

HistoryFiles ==
    {[status |-> "missing", records |-> <<>>], [status |-> "corrupt", records |-> <<>>]}

Init ==
    /\ pc = "idle"
    /\ state = NoState
    /\ gen = NoGen
    /\ path = "none"
    /\ data = <<>>
    /\ ran = <<>>
    /\ raised = {}
    /\ result = NoResult
    /\ escaped = FALSE
    /\ history \in HistoryFiles
    /\ content = <<>>
    /\ loaded = Raised("none")
    /\ policy_rag \in {HotelPolicyRAG, use_mock_policies(HotelPolicyRAG)}
    /\ retrieved = NoRetrieval
    /\ runs = NoRuns
    /\ before = NoFile

\* process_complaint is called: lines 83-108
Call ==
    /\ pc = "idle"
    /\ \E complaint_text \in ComplaintTexts, guest_name \in GuestNames,
          room_number \in RoomNumbers, contact_info \in ContactInfos :
          state' = initial_state(complaint_text, guest_name, room_number, contact_info)
    /\ pc' = WORKFLOW.entry
    /\ UNCHANGED <<gen, path, data, ran, raised, result, escaped, history, content, loaded,
                 policy_rag, retrieved, runs, before>>

\* a handler that logs and raises again
ExceptHandlerReraise(error) ==
    /\ pc' = "call_raised"
    /\ escaped' = TRUE
    /\ result' = NoResult
    /\ UNCHANGED history

\* lines 169-181: an exception out of WORKFLOW.invoke ends the call with
\* the failure result
ExceptHandler(error) ==
    /\ pc' = "returned"
    /\ escaped' = TRUE
    /\ result' = FailureResult(state.guest_name, state.room_number, error)
    /\ UNCHANGED history

\* the graph runs one node and follows its edge; res is what the node
\* function did, g what its generative call gave
RunNode(node, res, g) ==
    /\ state' = res.state
    /\ ran' = Append(ran, node)
    /\ gen' = g
    /\ path' = res.path
    /\ raised' = IF g.kind = "raise" THEN raised \cup {node} ELSE raised
    /\ IF res.exc # "none" THEN ExceptHandler(res.exc)
       ELSE /\ pc' = WORKFLOW.edges[node]
            /\ UNCHANGED <<result, escaped, history>>
    /\ UNCHANGED <<content, loaded, policy_rag, runs, before>>

\* the plan stage calls policy_rag.retrieve unless building its query raised
PlanLookup(s) ==
    \E search \in SearchOutcomes(policy_rag) :
       retrieved' = IF QueryRaises(s) THEN retrieved
                    ELSE PlanRetrieval(s, policy_rag, search)

Analyze ==
    /\ pc = "analyze"
    /\ \E g \in MappingGens(RunAnalysisMappings) :
          LET res == analysis_agent(state, g)
          IN  RunNode("analyze", res, g) /\ data' = res.data
    /\ UNCHANGED retrieved

PlanActions ==
    /\ pc = "plan_actions"
    /\ \E g \in MappingGens(RunPlanMappings) :
          LET res == action_planning_agent(state, g)
          IN  RunNode("plan_actions", res, g) /\ data' = res.data
    /\ PlanLookup(state)

DraftResponse ==
    /\ pc = "draft_response"
    /\ \E g \in ResponseGens :
          LET res == response_agent(state, g)
          IN  RunNode("draft_response", res, g) /\ data' = <<>>
    /\ UNCHANGED retrieved

\* lines 110-167: the graph reached END; build, log, store and return
Return ==
    /\ pc = "END"
    /\ \E io \in HistoryIO :
          LET built == BuildResult(state)
              stored == store_complaint_history(history, built, io)
          IN  IF SummaryRaises(built)
              THEN ExceptHandler("TypeError")
              ELSE IF stored.exc # "none"
              THEN /\ result' = FailureResult(state.guest_name, state.room_number, stored.exc)
                   /\ history' = stored.file
                   /\ pc' = "returned"
                   /\ escaped' = TRUE
              ELSE /\ result' = stored.record
                   /\ history' = stored.file
                   /\ pc' = "returned"
                   /\ UNCHANGED escaped
    /\ UNCHANGED <<state, gen, path, data, ran, raised, content, loaded,
                   policy_rag, retrieved, runs, before>>

Next == Call \/ Analyze \/ PlanActions \/ DraftResponse \/ Return

Spec == Init /\ [][Next]_vars

\* An Exception raised inside WORKFLOW.invoke outside the handlers of the
\* stages: what the except clause of process_complaint is there for.
WorkflowRaises ==
    /\ pc \in {"analyze", "plan_actions", "draft_response"}
    /\ ExceptHandler("RuntimeError")
    /\ UNCHANGED <<state, gen, path, data, ran, raised, content, loaded,
                   policy_rag, retrieved, runs, before>>

NextFault == Call \/ Analyze \/ PlanActions \/ DraftResponse \/ Return \/ WorkflowRaises

SpecFault == Init /\ [][NextFault]_vars

(***************************************************************************)
(* A stage function called on its own, as test/analysis_test.py and        *)
(* test/action_agent.py do, on a state the caller built by hand.           *)
(***************************************************************************)
\* test/action_agent.py lines 62-72 and 106-113
TestAnalysisHigh ==
    [severity_level |-> Str("high"),
     category |-> Str("maintenance"),
     sentiment_score |-> Num(-8),
     escalation_required |-> Bool(TRUE),
     key_issues |-> List(<<Str("Air conditioner not working"),
                           Str("No response from front desk")>>),
     summary_reasoning |-> Str("Critical failure with inadequate staff response")]

TestAnalysisPositive ==
    [severity_level |-> Str("low"),
     category |-> Str("positive_feedback"),
     sentiment_score |-> Num(7),
     escalation_required |-> Bool(FALSE),
     key_issues |-> List(<<Str("Positive staff feedback"), Str("Room cleanliness praised")>>),
     summary_reasoning |-> Str("Guest expressed high satisfaction")]

\* a hand-built state: the four inputs, optionally an analysis record, and
\* "shared_memory" present (holding the same record) or not
DirectState(guest_name, analysis, has_shared_memory) ==
    LET s == initial_state("The air conditioner stopped working at night.",
                           guest_name, "312", "rahul.mehta@email.com")
    IN  [s EXCEPT !.analysis = analysis,
                  !.has_shared_memory = has_shared_memory,
                  !.shared_memory.analysis =
                      IF has_shared_memory THEN analysis ELSE EmptyDict(AnalysisKeys)]

DirectStates ==
    {DirectState(n, a, h) :
        n \in GuestNames,
        a \in {EmptyDict(AnalysisKeys), TestAnalysisHigh, TestAnalysisPositive},
        h \in BOOLEAN}

InitStage ==
    /\ pc = "direct"
    /\ state \in DirectStates
    /\ gen = NoGen
    /\ path = "none"
    /\ data = <<>>
    /\ ran = <<>>
    /\ raised = {}
    /\ result = NoResult
    /\ escaped = FALSE
    /\ history = [status |-> "missing", records |-> <<>>]
    /\ content = <<>>
    /\ loaded = Raised("none")
    /\ policy_rag \in {HotelPolicyRAG, use_mock_policies(HotelPolicyRAG)}
    /\ retrieved = NoRetrieval
    /\ runs = NoRuns
    /\ before = NoFile

\* the call returns to its caller or raises there
CallStage(node, res, g) ==
    /\ state' = res.state
    /\ ran' = Append(ran, node)
    /\ gen' = g
    /\ path' = res.path
    /\ raised' = IF g.kind = "raise" THEN raised \cup {node} ELSE raised
    /\ pc' = IF res.exc = "none" THEN "stage_returned" ELSE "stage_raised"
    /\ UNCHANGED <<result, escaped, history, content, loaded, policy_rag, runs, before>>

DirectAnalysis ==
    /\ pc = "direct"
    /\ \E g \in MappingGens(AnalysisMappings) :
          LET res == analysis_agent(state, g)
          IN  CallStage("analyze", res, g) /\ data' = res.data
    /\ UNCHANGED retrieved

DirectPlan ==
    /\ pc = "direct"
    /\ \E g \in MappingGens(PlanMappings) :
          LET res == action_planning_agent(state, g)
          IN  CallStage("plan_actions", res, g) /\ data' = res.data
    /\ PlanLookup(state)

DirectResponse ==
    /\ pc = "direct"
    /\ \E g \in ResponseGens :
          LET res == response_agent(state, g)
          IN  CallStage("draft_response", res, g) /\ data' = <<>>
    /\ UNCHANGED retrieved

\* the record a stage wrote comes back as the extracted mapping of the same
\* stage: repair and validation are applied to their own output
AnalysisAgain ==
    /\ pc = "stage_returned"
    /\ ran = <<"analyze">>
    /\ LET g == [kind |-> "mapping", m |-> state.analysis]
           res == analysis_agent(state, g)
       IN  CallStage("analyze", res, g) /\ data' = res.data
    /\ UNCHANGED retrieved

PlanAgain ==
    /\ pc = "stage_returned"
    /\ ran = <<"plan_actions">>
    /\ LET g == [kind |-> "mapping", m |-> state.actions]
           res == action_planning_agent(state, g)
       IN  CallStage("plan_actions", res, g) /\ data' = res.data
    /\ PlanLookup(state)

NextStage == DirectAnalysis \/ DirectPlan \/ DirectResponse \/ AnalysisAgain \/ PlanAgain

SpecStage == InitStage /\ [][NextStage]_vars

(***************************************************************************)
(* safe_json_load called on a text.                                        *)
(***************************************************************************)
MaxTokens == 4

JsonTokens == {FENCE, TAG, SP, OBJ, OBJJ, ARR, NUM, DEEP, PROSE}

Texts == UNION {[1..n -> JsonTokens] : n \in 0..MaxTokens}

InitJson ==
    /\ pc = "json"
    /\ content \in Texts
    /\ loaded = Raised("none")
    /\ state = NoState
    /\ gen = NoGen
    /\ path = "none"
    /\ data = <<>>
    /\ ran = <<>>
    /\ raised = {}
    /\ result = NoResult
    /\ escaped = FALSE
    /\ history = [status |-> "missing", records |-> <<>>]
    /\ policy_rag = HotelPolicyRAG
    /\ retrieved = NoRetrieval
    /\ runs = NoRuns
    /\ before = NoFile

Load ==
    /\ pc = "json"
    /\ loaded' = safe_json_load(content)
    /\ pc' = "json_done"
    /\ UNCHANGED <<state, gen, path, data, ran, raised, result, escaped, history, content,
                   policy_rag, retrieved, runs, before>>

NextJson == Load

SpecJson == InitJson /\ [][NextJson]_vars

(***************************************************************************)
(* The policy retriever on its own: policy_rag.initialize() as main.py and *)
(* test/action_agent.py call it, and one policy_rag.retrieve(query, k).    *)
(***************************************************************************)
MaxWords == 2
MaxK == 4

QueryWords ==
    {"MAINTENANCE", "maintenance", "Service", "unserviceable", "general",
     "positive_feedback", "severity", "noise"}

Queries == UNION {[1..n -> QueryWords] : n \in 0..MaxWords}

KArgs == {KArg(FALSE, 0)} \cup {KArg(TRUE, n) : n \in 0..MaxK}

\* a policy of data/hotel_policies.json, with or without its content key
Policy(page_content) == [has_content |-> TRUE, content |-> page_content]

PolicyNoContent == [has_content |-> FALSE, content |-> ""]

PolicyFiles ==
    {<<>>,
     <<Policy("AC failures lasting more than 4 hours")>>,
     <<Policy("AC failures lasting more than 4 hours"),
       Policy("Pest sightings require relocation"),
       Policy("Late checkout on request")>>,
     <<Policy("AC failures lasting more than 4 hours"), PolicyNoContent>>}

InitEnvs ==
    {[file |-> "missing", policies |-> <<>>, backend |-> "ok"],
     [file |-> "unreadable", policies |-> <<>>, backend |-> "ok"]}
    \cup [file : {"loaded"}, policies : PolicyFiles, backend : {"ok", "raise"}]

InitRag ==
    /\ pc = "rag"
    /\ policy_rag = HotelPolicyRAG
    /\ retrieved = NoRetrieval
    /\ runs = NoRuns
    /\ before = NoFile
    /\ state = NoState
    /\ gen = NoGen
    /\ path = "none"
    /\ data = <<>>
    /\ ran = <<>>
    /\ raised = {}
    /\ result = NoResult
    /\ escaped = FALSE
    /\ history = [status |-> "missing", records |-> <<>>]
    /\ content = <<>>
    /\ loaded = Raised("none")

\* policy_rag.initialize(), any number of times
Initialize ==
    /\ pc \in {"rag", "rag_ready"}
    /\ \E env \in InitEnvs : policy_rag' = initialize(policy_rag, env)
    /\ pc' = "rag_ready"
    /\ UNCHANGED <<state, gen, path, data, ran, raised, result, escaped, history, content,
                   loaded, retrieved, runs, before>>

\* policy_rag.retrieve(query, k) or policy_rag.retrieve(query)
Retrieve ==
    /\ pc \in {"rag", "rag_ready"}
    /\ \E query \in Queries, k \in KArgs, search \in SearchOutcomes(policy_rag) :
          retrieved' = [self |-> policy_rag, query |-> query, k |-> k, search |-> search,
                        out |-> retrieve(policy_rag, query, k, search)]
    /\ pc' = "rag_retrieved"
    /\ UNCHANGED <<state, gen, path, data, ran, raised, result, escaped, history, content,
                   loaded, policy_rag, runs, before>>

NextRag == Initialize \/ Retrieve

SpecRag == InitRag /\ [][NextRag]_vars

(***************************************************************************)
(* Calls of process_complaint side by side.  Nothing in workflow.py locks  *)
(* the history file, so the steps of store_complaint_history that touch    *)
(* it (the read of line 52, the open of line 59, the write of line 60) are *)
(* steps of their own and the calls interleave between them.               *)
(***************************************************************************)
ValidPlan ==
    [internal_actions |-> List(<<ValidItem>>),
     assigned_department |-> Str("Engineering"),
     estimated_resolution_time |-> Str("30 minutes"),
     compensation_recommended |-> Null,
     guest_response_tone |-> Str("apologetic and empathetic"),
     response_focus |-> List(<<Str("Timeline commitment")>>)]

RunsAnalysisGens == {[kind |-> "raise", m |-> <<>>], [kind |-> "mapping", m |-> TestAnalysisHigh]}

RunsPlanGens == {[kind |-> "raise", m |-> <<>>], [kind |-> "mapping", m |-> ValidPlan]}

RunsResponseGens ==
    {[kind |-> "raise", content |-> <<>>],
     [kind |-> "content", content |-> <<Word25, SP, Word25>>]}

\* a record an earlier run left in the file
OldRecord ==
    [BuildResult(initial_state("The minibar was empty.", "Asha Rao", "118", "asha@email.com"))
        EXCEPT !.processed_at = Str("earlier")]

RunsHistoryFiles == HistoryFiles \cup {[status |-> "array", records |-> <<OldRecord>>]}

InitRuns ==
    /\ pc = "runs"
    /\ runs = NoRuns
    /\ history \in RunsHistoryFiles
    /\ before = history
    /\ policy_rag = use_mock_policies(HotelPolicyRAG)
    /\ retrieved = NoRetrieval
    /\ state = NoState
    /\ gen = NoGen
    /\ path = "none"
    /\ data = <<>>
    /\ ran = <<>>
    /\ raised = {}
    /\ result = NoResult
    /\ escaped = FALSE
    /\ content = <<>>
    /\ loaded = Raised("none")

\* process_complaint lines 83-108 of call c
RunCall(c) ==
    /\ runs[c].pc = "idle"
    /\ \E complaint_text \in ComplaintTexts, guest_name \in GuestNames,
          room_number \in RoomNumbers, contact_info \in ContactInfos :
          runs' = [runs EXCEPT ![c] =
                      [NoRun EXCEPT
                          !.pc = WORKFLOW.entry,
                          !.args = <<complaint_text, guest_name, room_number, contact_info>>,
                          !.state = initial_state(complaint_text, guest_name, room_number,
                                                  contact_info)]]
    /\ UNCHANGED <<pc, state, gen, path, data, ran, raised, result, escaped, history,
                   content, loaded, policy_rag, retrieved, before>>

\* lines 169-181 for call c
RunFailed(c, got, error) ==
    [runs[c] EXCEPT
        !.pc = "returned",
        !.got = got,
        !.result = FailureResult(runs[c].state.guest_name, runs[c].state.room_number, error)]

\* the graph of call c runs one node
RunStage(c, node, res, g) ==
    /\ runs' = [runs EXCEPT ![c] =
                   IF res.exc # "none" THEN RunFailed(c, Append(runs[c].got, g), res.exc)
                   ELSE [runs[c] EXCEPT !.pc = WORKFLOW.edges[node],
                                        !.state = res.state,
                                        !.got = Append(runs[c].got, g)]]
    /\ UNCHANGED <<pc, state, gen, path, data, ran, raised, result, escaped, history,
                   content, loaded, policy_rag, before>>

RunAnalyze(c) ==
    /\ runs[c].pc = "analyze"
    /\ \E g \in RunsAnalysisGens : RunStage(c, "analyze", analysis_agent(runs[c].state, g), g)
    /\ UNCHANGED retrieved

RunPlan(c) ==
    /\ runs[c].pc = "plan_actions"
    /\ \E g \in RunsPlanGens :
          RunStage(c, "plan_actions", action_planning_agent(runs[c].state, g), g)
    /\ PlanLookup(runs[c].state)

RunDraft(c) ==
    /\ runs[c].pc = "draft_response"
    /\ \E g \in RunsResponseGens :
          RunStage(c, "draft_response", response_agent(runs[c].state, g), g)
    /\ UNCHANGED retrieved

\* process_complaint lines 110-165 and store_complaint_history line 47: the
\* result is built and logged and handed to the store, whose mkdir works
\* or raises (then the store logs and the call returns the result)
RunBuild(c) ==
    /\ runs[c].pc = "END"
    /\ LET built == BuildResult(runs[c].state)
       IN  IF SummaryRaises(built)
           THEN runs' = [runs EXCEPT ![c] = RunFailed(c, runs[c].got, "TypeError")]
           ELSE \E mkdir \in {"none", "OSError"} :
                   runs' = [runs EXCEPT ![c] =
                               [runs[c] EXCEPT
                                   !.pc = IF mkdir = "none" THEN "store_read" ELSE "returned",
                                   !.exc = mkdir,
                                   !.result = built]]
    /\ UNCHANGED <<pc, state, gen, path, data, ran, raised, result, escaped, history,
                   content, loaded, policy_rag, retrieved, before>>

\* store_complaint_history lines 49-57: the file is read if it exists (a
\* file that is no JSON array ends the store), the record is stamped and
\* appended to the list that was read
StoreLoad(c) ==
    /\ runs[c].pc = "store_read"
    /\ runs' = [runs EXCEPT ![c] =
                   IF history.status \in {"missing", "array"}
                   THEN LET stamped == [runs[c].result EXCEPT !.processed_at = Str("now")]
                        IN  [runs[c] EXCEPT
                                !.pc = "store_open",
                                !.result = stamped,
                                !.local = Append(history.records, stamped)]
                   ELSE [runs[c] EXCEPT !.pc = "returned", !.exc = "JSONDecodeError"]]
    /\ UNCHANGED <<pc, state, gen, path, data, ran, raised, result, escaped, history,
                   content, loaded, policy_rag, retrieved, before>>

\* line 59: open(file, "w") empties the file, or raises and leaves it
StoreOpen(c) ==
    /\ runs[c].pc = "store_open"
    /\ \/ /\ history' = [status |-> "truncated", records |-> <<>>]
          /\ runs' = [runs EXCEPT ![c].pc = "store_dump"]
       \/ /\ runs' = [runs EXCEPT ![c].pc = "returned", ![c].exc = "OSError"]
          /\ UNCHANGED history
    /\ UNCHANGED <<pc, state, gen, path, data, ran, raised, result, escaped,
                   content, loaded, policy_rag, retrieved, before>>

\* lines 60-62 and 167: json.dump writes the list from the start of the
\* file and the save is logged, or the write fails part way.  A write over
\* what another call has written since this one emptied the file leaves
\* the list or, when the other text was longer, no JSON at all.
StoreDump(c) ==
    /\ runs[c].pc = "store_dump"
    /\ \/ /\ history' = [status |-> "array", records |-> runs[c].local]
          /\ runs' = [runs EXCEPT ![c].pc = "returned", ![c].saved = TRUE]
       \/ /\ history.status # "truncated"
          /\ history' = [status |-> "corrupt", records |-> <<>>]
          /\ runs' = [runs EXCEPT ![c].pc = "returned", ![c].saved = TRUE]
       \/ /\ history' = [status |-> "corrupt", records |-> <<>>]
          /\ runs' = [runs EXCEPT ![c].pc = "returned", ![c].exc = "OSError"]
    /\ UNCHANGED <<pc, state, gen, path, data, ran, raised, result, escaped,
                   content, loaded, policy_rag, retrieved, before>>

NextRuns ==
    \E c \in Runs :
       \/ RunCall(c)
       \/ RunAnalyze(c)
       \/ RunPlan(c)
       \/ RunDraft(c)
       \/ RunBuild(c)
       \/ StoreLoad(c)
       \/ StoreOpen(c)
       \/ StoreDump(c)

SpecRuns == InitRuns /\ [][NextRuns]_vars

(***************************************************************************)
(* Properties.                                                             *)
(***************************************************************************)
HasRun(node) == \E i \in 1..Len(ran) : ran[i] = node

AllStages == {"analyze", "plan_actions", "draft_response"}

\* C1: when every generative call raises, process_complaint returns a
\* normal result (no error, no workflow_failed) whose records are the
\* fallback values: analysis medium / general / 0.0 / no escalation, a plan
\* of one medium-priority item for the Guest Relations Department within 2
\* hours without compensation, and the apology template tagged "fallback".
C1_AllCallsFailGivesFallbacks ==
    (pc = "returned" /\ raised = AllStages) =>
        /\ result.workflow_failed = Absent
        /\ result.error = Absent
        /\ result.analysis.v.severity_level = Str("medium")
        /\ result.analysis.v.category = Str("general")
        /\ result.analysis.v.sentiment_score = Num(0)
        /\ result.analysis.v.escalation_required = Bool(FALSE)
        /\ Len(result.actions.v.internal_actions.v) = 1
        /\ result.actions.v.internal_actions.v[1].v.priority = Str("medium")
        /\ result.actions.v.assigned_department = Str("Guest Relations Department")
        /\ result.actions.v.estimated_resolution_time = Str("Within 2 hours")
        /\ result.actions.v.compensation_recommended = Null
        /\ result.response.v.response_type = Str("fallback")
        /\ result.response.v.guest_response =
               Str(ApologyFallback(state.guest_name, "Guest Relations Department",
                                   "Within 2 hours"))

C1_Witness == pc = "returned" /\ raised = AllStages /\ result.guest_name = Str("Rahul Mehta")

\* C2: in every analysis record the analysis stage writes, on the success
\* path and on the fallback path, escalation_required is true exactly when
\* severity_level is high or critical, whatever the model said.
C2_EscalationFollowsSeverity ==
    (ran = <<"analyze">>) =>
        /\ state.analysis.escalation_required =
               Bool(state.analysis.severity_level \in {Str("high"), Str("critical")})
        /\ state.has_shared_memory =>
               state.shared_memory.analysis.escalation_required =
                   Bool(state.shared_memory.analysis.severity_level
                            \in {Str("high"), Str("critical")})

C2_Witness ==
    /\ ran = <<"analyze">>
    /\ pc = "stage_returned"
    /\ path = "success"
    /\ gen.m.escalation_required = Bool(FALSE)
    /\ state.shared_memory.analysis.severity_level = Str("critical")
    /\ state.shared_memory.analysis.escalation_required = Bool(TRUE)

\* C3: the repair of an extracted analysis mapping replaces a severity that
\* is absent or not one of low/medium/high/critical by medium and a category
\* that is absent or not one of the 13 labels by general, and keeps a member
\* as it is; the record written from the repaired mapping carries the same
\* two values.
C3_SeverityOk(x) == x \in {Str("low"), Str("medium"), Str("high"), Str("critical")}

C3_CategoryOk(x) ==
    x \in {Str("maintenance"), Str("cleanliness"), Str("amenities"), Str("service"),
           Str("billing"), Str("noise"), Str("privacy"), Str("safety"),
           Str("food_beverage"), Str("parking"), Str("check_in_out"), Str("general"),
           Str("positive_feedback")}

C3_EnumDefaults ==
    (ran = <<"analyze">> /\ gen.kind = "mapping") =>
        /\ data.severity_level =
               IF C3_SeverityOk(gen.m.severity_level) THEN gen.m.severity_level
               ELSE Str("medium")
        /\ data.category =
               IF C3_CategoryOk(gen.m.category) THEN gen.m.category ELSE Str("general")
        /\ path = "success" =>
               /\ state.analysis.severity_level = data.severity_level
               /\ state.analysis.category = data.category
        /\ ~C3_SeverityOk(gen.m.severity_level) =>
               state.analysis.severity_level = Str("medium")
        /\ ~C3_CategoryOk(gen.m.category) => state.analysis.category = Str("general")

C3_Witness ==
    /\ ran = <<"analyze">>
    /\ pc = "stage_returned"
    /\ path = "success"
    /\ gen.m.severity_level = Str("HIGH")
    /\ gen.m.category = Str("spa")
    /\ state.shared_memory.analysis.severity_level = Str("medium")
    /\ state.shared_memory.analysis.category = Str("general")

\* C4: for every extracted analysis mapping whose sentiment_score is present
\* but not a number, or a number outside [-1.0, 1.0], the written record has
\* sentiment_score 0.0; a number inside the interval is kept.
C4_NumberInRange(x) == x.t = "num" /\ -10 <= x.v /\ x.v <= 10

C4_SentimentDefault ==
    (ran = <<"analyze">> /\ gen.kind = "mapping") =>
        /\ (gen.m.sentiment_score # Absent /\ ~C4_NumberInRange(gen.m.sentiment_score)) =>
               state.analysis.sentiment_score = Num(0)
        /\ (C4_NumberInRange(gen.m.sentiment_score) /\ path = "success") =>
               state.analysis.sentiment_score = gen.m.sentiment_score

\* C5: in every run the stages execute in the order analyze, plan_actions,
\* draft_response, each exactly once, whatever path a stage takes.
C5_StagesInOrder ==
    /\ \E n \in 0..Len(Stages) : ran = SubSeq(Stages, 1, n)
    /\ pc = "analyze" => ran = <<>>
    /\ pc = "plan_actions" => ran = <<"analyze">>
    /\ pc = "draft_response" => ran = <<"analyze", "plan_actions">>
    /\ pc \in {"END", "returned"} => ran = Stages

C5_Witness ==
    /\ pc = "returned"
    /\ ran = Stages
    /\ raised = {"analyze"}
    /\ state.shared_memory.response.response_type = Str("complaint")

\* C6: once a stage has returned inside a run, its shared_memory key holds a
\* complete record that satisfies the schema, whatever the generative call
\* returned: never the empty mapping, never a partial one.
C6_AnalysisConforms(a) ==
    /\ C3_SeverityOk(a.severity_level)
    /\ C3_CategoryOk(a.category)
    /\ a.sentiment_score.t = "num"
    /\ -10 <= a.sentiment_score.v /\ a.sentiment_score.v <= 10
    /\ a.escalation_required.t = "bool"
    /\ a.key_issues.t = "list"
    /\ a.summary_reasoning.t = "str"

C6_PlanConforms(p) ==
    /\ p.internal_actions.t = "list"
    /\ Len(p.internal_actions.v) >= 1
    /\ \A i \in 1..Len(p.internal_actions.v) :
          /\ p.internal_actions.v[i].t = "dict"
          /\ p.internal_actions.v[i].v.priority
                \in {Str("low"), Str("medium"), Str("high"), Str("urgent")}
    /\ p.assigned_department.t = "str" /\ p.assigned_department.v # ""
    /\ p.estimated_resolution_time.t = "str" /\ p.estimated_resolution_time.v # ""
    /\ p.compensation_recommended.t \in {"null", "str"}
    /\ p.guest_response_tone.t = "str"
    /\ p.response_focus.t = "list"

C6_ResponseConforms(r) ==
    /\ r.guest_response.t = "str"
    /\ r.response_type.t = "str"

C6_RecordsConform ==
    /\ HasRun("analyze") => C6_AnalysisConforms(state.shared_memory.analysis)
    /\ HasRun("plan_actions") => C6_PlanConforms(state.shared_memory.actions)
    /\ HasRun("draft_response") => C6_ResponseConforms(state.shared_memory.response)

C6_Witness ==
    /\ pc = "draft_response"
    /\ gen.kind = "mapping"
    /\ gen.m.assigned_department = Str("")
    /\ path = "success"
    /\ state.shared_memory.actions.assigned_department = Str("Guest Relations Department")
    /\ state.shared_memory.analysis.summary_reasoning =
           Str("Automatic fallback due to analysis error")

\* C7: each stage function, called on any state, those without a
\* shared_memory key included, returns normally with its own record written
\* and never propagates an exception to its caller.
C7_StageNeverRaises ==
    (pc \in {"stage_returned", "stage_raised"}) =>
        /\ pc = "stage_returned"
        /\ ran = <<"analyze">> => ~IsEmptyDict(state.analysis)
        /\ ran = <<"plan_actions">> => ~IsEmptyDict(state.actions)
        /\ ran = <<"draft_response">> => ~IsEmptyDict(state.response)

\* C8: process_complaint never raises; an exception that escapes the stage
\* sequence gives a result with workflow_failed true and an error text, and
\* the result of a run whose three stages all returned carries neither.
C8_FailureDistinguishable ==
    /\ pc # "call_raised"
    /\ pc = "returned" =>
          /\ escaped => (result.workflow_failed = Bool(TRUE) /\ result.error.t = "str")
          /\ (~escaped /\ ran = Stages) =>
                (result.workflow_failed = Absent /\ result.error = Absent
                 /\ result.response.t = "dict")
          /\ escaped \/ ran = Stages

C8_Witness ==
    /\ pc = "returned"
    /\ escaped
    /\ ran = <<"analyze">>
    /\ result.workflow_failed = Bool(TRUE)

\* C9: for any text, safe_json_load either returns a parsed value or raises
\* ValueError; it raises no other type of exception.
C9_OnlyValueError ==
    (pc = "json_done") =>
        \/ loaded.kind = "return"
        \/ loaded.kind = "raise" /\ IsValueError(loaded.exc)

C9_Witness ==
    /\ pc = "json_done"
    /\ content = <<FENCE, DEEP, FENCE>>
    /\ loaded.kind = "raise"
    /\ loaded.exc = "ValueError"

\* C10: whenever safe_json_load returns, the returned value is a mapping;
\* text that parses as an array, a number or another non-mapping value
\* gives the extraction error.
C10_ReturnsMapping ==
    (pc = "json_done" /\ loaded.kind = "return") => loaded.value.t = "dict"

\* C11: for a JSON mapping m, the text that wraps the serialization of m in
\* a fence tagged json (blanks around the payload allowed) is extracted to
\* exactly m, also when a text value of m is itself "json": only the
\* language tag after the opening fence is dropped.
C11_IsFencedObject(q) ==
    /\ Len(q) >= 4
    /\ q[1] = FENCE
    /\ q[2] = TAG
    /\ q[Len(q)] = FENCE
    /\ Len(Strip(SubSeq(q, 3, Len(q) - 1))) = 1
    /\ Strip(SubSeq(q, 3, Len(q) - 1))[1] \in {OBJ, OBJJ}

C11_FencedMappingRoundTrips ==
    (pc = "json_done" /\ C11_IsFencedObject(content)) =>
        loaded = Returned(JsonObject(Strip(SubSeq(content, 3, Len(content) - 1))[1]))

\* C12: the analysis stage repairs field by field and never rejects the
\* whole record: when the extracted mapping has a severity_level among low,
\* medium, high, critical, the record the stage writes has that severity,
\* whatever the other fields are (sentiment_score, key_issues or
\* summary_reasoning missing or of the wrong type).
C12_ValidSeveritySurvives ==
    (ran = <<"analyze">> /\ pc = "stage_returned" /\ gen.kind = "mapping"
        /\ C3_SeverityOk(gen.m.severity_level)) =>
        /\ state.analysis.severity_level = gen.m.severity_level
        /\ state.shared_memory.analysis.severity_level = gen.m.severity_level

\* C13: the plan stage repairs an invalid priority instead of rejecting the
\* record: when the extracted plan mapping has a non-empty text
\* assigned_department d and estimated_resolution_time t (the other fields
\* being acceptable), the written plan has department d and ETA t and the
\* same action items, even if the priority of an item is absent or not one
\* of low, medium, high, urgent; a valid priority is kept.
C13_NonEmptyText(x) == x.t = "str" /\ x.v # ""

C13_OnlyPriorityWrong(m) ==
    /\ C13_NonEmptyText(m.assigned_department)
    /\ C13_NonEmptyText(m.estimated_resolution_time)
    /\ m.internal_actions.t = "list"
    /\ Len(m.internal_actions.v) >= 1
    /\ \A i \in 1..Len(m.internal_actions.v) :
          /\ m.internal_actions.v[i].t = "dict"
          /\ m.internal_actions.v[i].v.action.t = "str"
          /\ m.internal_actions.v[i].v.responsible.t = "str"
          /\ m.internal_actions.v[i].v.timeline.t = "str"
    /\ m.compensation_recommended.t \in {"absent", "null", "str"}
    /\ m.guest_response_tone.t \in {"absent", "str"}
    /\ m.response_focus.t \in {"absent", "list"}

C13_PriorityRepairedInPlace ==
    (ran = <<"plan_actions">> /\ pc = "stage_returned" /\ gen.kind = "mapping"
        /\ C13_OnlyPriorityWrong(gen.m)) =>
        LET plan == state.shared_memory.actions
        IN  /\ plan.assigned_department = gen.m.assigned_department
            /\ plan.estimated_resolution_time = gen.m.estimated_resolution_time
            /\ state.actions = plan
            /\ Len(plan.internal_actions.v) = Len(gen.m.internal_actions.v)
            /\ \A i \in 1..Len(gen.m.internal_actions.v) :
                  /\ plan.internal_actions.v[i].v.action = gen.m.internal_actions.v[i].v.action
                  /\ gen.m.internal_actions.v[i].v.priority
                         \in {Str("low"), Str("medium"), Str("high"), Str("urgent")}
                     => plan.internal_actions.v[i].v.priority =
                            gen.m.internal_actions.v[i].v.priority

\* C14: when the extracted plan mapping has no internal_actions, or an empty
\* list, the stage synthesizes exactly one item (Review and address
\* complaint in room <room_number>, Guest Relations Manager, Within 1 hour)
\* whose priority is high when the severity of the analysis is high or
\* critical and medium otherwise, and keeps the other valid fields of the
\* mapping; with the other fields acceptable the written plan is that
\* repaired mapping.
C14_NoActions(m) == m.internal_actions \in {Absent, List(<<>>)}

C14_Synthesized(room_number, severity) ==
    Dict([action |-> Str("Review and address complaint in room " \o room_number),
          responsible |-> Str("Guest Relations Manager"),
          priority |-> IF severity \in {Str("high"), Str("critical")} THEN Str("high")
                       ELSE Str("medium"),
          timeline |-> Str("Within 1 hour")])

C14_OthersAcceptable(m) ==
    /\ m.assigned_department.t \in {"absent", "str"}
    /\ m.estimated_resolution_time.t \in {"absent", "str"}
    /\ m.compensation_recommended.t \in {"absent", "null", "str"}
    /\ m.guest_response_tone.t \in {"absent", "str"}
    /\ m.response_focus.t \in {"absent", "list"}

C14_SynthesizedItem ==
    (ran = <<"plan_actions">> /\ gen.kind = "mapping" /\ C14_NoActions(gen.m)) =>
        LET severity == Get(state.analysis, "severity_level", Str("medium"))
            items == List(<<C14_Synthesized(state.room_number, severity)>>)
        IN  /\ data.internal_actions = items
            /\ C13_NonEmptyText(gen.m.assigned_department) =>
                   data.assigned_department = gen.m.assigned_department
            /\ C13_NonEmptyText(gen.m.estimated_resolution_time) =>
                   data.estimated_resolution_time = gen.m.estimated_resolution_time
            /\ data.compensation_recommended = gen.m.compensation_recommended
            /\ gen.m.guest_response_tone # Absent =>
                   data.guest_response_tone = gen.m.guest_response_tone
            /\ gen.m.response_focus # Absent => data.response_focus = gen.m.response_focus
            /\ (C14_OthersAcceptable(gen.m) /\ state.has_shared_memory) =>
                   (pc = "stage_returned" /\ path = "success")
            /\ path = "success" =>
                   /\ state.actions.internal_actions = items
                   /\ state.actions.assigned_department = data.assigned_department
                   /\ state.actions.estimated_resolution_time = data.estimated_resolution_time
                   /\ state.actions.guest_response_tone = data.guest_response_tone
                   /\ state.actions.response_focus = data.response_focus
                   /\ state.actions.compensation_recommended =
                          Get(data, "compensation_recommended", Null)

C14_Witness ==
    /\ ran = <<"plan_actions">>
    /\ pc = "stage_returned"
    /\ path = "success"
    /\ gen.m.internal_actions = List(<<>>)
    /\ gen.m.assigned_department = Str("Engineering")
    /\ state.analysis.severity_level = Str("high")
    /\ state.shared_memory.actions.internal_actions.v[1].v.priority = Str("high")
    /\ Len(state.shared_memory.actions.internal_actions.v) = 1
    /\ state.shared_memory.actions.assigned_department = Str("Engineering")

\* C15: default-filling is idempotent: a record that the repair and
\* validation of the analysis stage, or of the plan stage, produced goes
\* through the same step again unchanged, and is accepted.
C15_RepairIdempotent ==
    (Len(ran) = 2) =>
        /\ pc = "stage_returned"
        /\ path = "success"
        /\ ran[2] = "analyze" =>
               (state.analysis = gen.m /\ state.shared_memory.analysis = gen.m)
        /\ ran[2] = "plan_actions" =>
               (state.actions = gen.m /\ state.shared_memory.actions = gen.m)

C15_Witness ==
    /\ ran = <<"plan_actions", "plan_actions">>
    /\ pc = "stage_returned"
    /\ state.analysis.severity_level = Str("high")
    /\ state.actions.internal_actions = List(<<ValidItem>>)
    /\ state.actions.compensation_recommended = Str("25% room discount")
    /\ state.actions.response_focus =
           List(<<Str("Acknowledge concern"), Str("Provide resolution timeline")>>)

\* C16: in degraded (mock) mode, for every query and every passed k >= 1,
\* retrieve returns the first min(k, bucket size) passages, in stored
\* order, of a bucket whose name is a substring of the lower-cased query,
\* and the first k passages of the general bucket when no bucket name
\* occurs; the match does not depend on the case of the query.
C16_Min(a, b) == IF a < b THEN a ELSE b

C16_NamesInQuery(query) ==
    {name \in {"maintenance", "cleanliness", "service", "positive_feedback", "general"} :
        \E i \in 1..Len(query) : name \in NamesIn(Lower(query[i]))}

C16_MockMode(self) == self.initialized /\ self.vectorstore.is_none /\ self.has_mock_policies

C16_MockRetrieval ==
    (pc = "rag_retrieved" /\ C16_MockMode(retrieved.self)
        /\ retrieved.k.given /\ retrieved.k.n >= 1) =>
        /\ retrieved.out.kind = "return"
        /\ LET names == C16_NamesInQuery(retrieved.query)
               k == retrieved.k.n
               out == retrieved.out.value
           IN  IF names # {}
               THEN \E name \in names :
                       out = SubSeq(mock_policies[name], 1,
                                    C16_Min(k, Len(mock_policies[name])))
               ELSE out = SubSeq(mock_policies["general"], 1, C16_Min(k, 3))

C16_Witness ==
    /\ pc = "rag_retrieved"
    /\ C16_MockMode(retrieved.self)
    /\ retrieved.query = <<"MAINTENANCE", "severity">>
    /\ retrieved.k = KArg(TRUE, 2)
    /\ retrieved.out.value = <<"Standard Response Time: Maintenance requests",
                               "Compensation Policy: For AC/heating failures">>

\* C17: retrieve never raises, whatever state the retriever is in: it
\* returns the empty list when initialize was never called and when the
\* similarity search raises; after any call of initialize (file missing,
\* empty, unreadable, backend failure) the retriever is initialized and
\* answers from the index or from the mock buckets.
C17_RetrieveNeverRaises ==
    /\ pc = "rag_ready" =>
          /\ policy_rag.initialized
          /\ ~policy_rag.vectorstore.is_none \/ policy_rag.has_mock_policies
    /\ pc = "rag_retrieved" =>
          /\ retrieved.out.kind = "return"
          /\ ~retrieved.self.initialized => retrieved.out.value = <<>>
          /\ retrieved.search.kind = "raise" => retrieved.out.value = <<>>
          /\ (retrieved.self.initialized /\ retrieved.search.kind = "docs") =>
                 \A i \in 1..Len(retrieved.out.value) :
                    \E j \in 1..Len(retrieved.self.vectorstore.documents) :
                       retrieved.out.value[i] = retrieved.self.vectorstore.documents[j]
          /\ (retrieved.self.initialized /\ retrieved.search.kind = "unused") =>
                 \E name \in DOMAIN mock_policies, n \in 0..3 :
                    retrieved.out.value = SubSeq(mock_policies[name], 1, n)

C17_Witness ==
    /\ pc = "rag_retrieved"
    /\ retrieved.self.initialized
    /\ retrieved.self.has_mock_policies
    /\ ~retrieved.self.vectorstore.is_none
    /\ retrieved.search.kind = "raise"
    /\ retrieved.out = Returned(<<>>)

\* C18: for every explicitly passed k >= 0, retrieve returns at most k
\* passages; retrieve(query, 0) returns the empty list.
C18_AtMostK ==
    (pc = "rag_retrieved" /\ retrieved.k.given /\ retrieved.out.kind = "return") =>
        Len(retrieved.out.value) <= retrieved.k.n

\* C19: after each stage has returned, on its success path and on its
\* fallback path, the legacy top-level field of the state (analysis,
\* actions, response) holds the record of the stage and equals the entry
\* of shared_memory under the same key.
C19_MirrorEqualsShared ==
    /\ HasRun("analyze") =>
          (~IsEmptyDict(state.analysis) /\ state.analysis = state.shared_memory.analysis)
    /\ HasRun("plan_actions") =>
          (~IsEmptyDict(state.actions) /\ state.actions = state.shared_memory.actions)
    /\ HasRun("draft_response") =>
          (~IsEmptyDict(state.response) /\ state.response = state.shared_memory.response)

C19_Witness ==
    /\ pc = "END"
    /\ state.analysis.summary_reasoning = Str("Automatic fallback due to analysis error")
    /\ state.actions.assigned_department = Str("Engineering")
    /\ state.shared_memory.actions.assigned_department = Str("Engineering")
    /\ state.response.response_type = Str("fallback")
    /\ state.shared_memory.response.response_type = Str("fallback")

\* C20: when the analysis record indicates positive feedback (category
\* positive_feedback and sentiment_score above 0.5), the plan record the
\* plan stage writes has compensation_recommended null and a
\* guest_response_tone that is not apologetic, whatever plan mapping the
\* generative call returned.
C20_PositiveFeedback(analysis) ==
    /\ analysis.category = Str("positive_feedback")
    /\ analysis.sentiment_score.t = "num"
    /\ analysis.sentiment_score.v > 5

C20_Apologetic(tone) == tone = Str("apologetic and empathetic")

C20_PositivePlanUncompensated ==
    (HasRun("plan_actions") /\ pc = "stage_returned"
        /\ C20_PositiveFeedback(state.shared_memory.analysis)) =>
        /\ state.shared_memory.actions.compensation_recommended = Null
        /\ ~C20_Apologetic(state.shared_memory.actions.guest_response_tone)

\* C21: no stage changes the four input fields (complaint_text, guest_name,
\* room_number, contact_info) or the two status flags: every step of a run
\* leaves them as the call set them, the flags stay false, and every normal
\* result echoes the four inputs and reports stored_successfully false and
\* notification_sent false.
C21_Frame(s) ==
    <<s.complaint_text, s.guest_name, s.room_number, s.contact_info,
      s.stored_successfully, s.notification_sent>>

C21_InputsAndFlagsKept ==
    /\ [](pc # "idle" => (~state.stored_successfully /\ ~state.notification_sent))
    /\ [](pc = "returned" /\ ~escaped =>
             /\ result.complaint_text = Str(state.complaint_text)
             /\ result.guest_name = Str(state.guest_name)
             /\ result.room_number = Str(state.room_number)
             /\ result.contact_info = Str(state.contact_info)
             /\ result.stored_successfully = Bool(FALSE)
             /\ result.notification_sent = Bool(FALSE))
    /\ [][pc # "idle" => C21_Frame(state') = C21_Frame(state)]_vars

C21_Witness ==
    /\ pc = "returned"
    /\ ~escaped
    /\ history.status = "array"
    /\ state.guest_name = "Rahul Mehta"
    /\ result.guest_name = Str("Rahul Mehta")
    /\ result.stored_successfully = Bool(FALSE)

\* C22: within a run each shared_memory key is written by its owning stage
\* only: the analysis stage leaves actions and response unchanged, the plan
\* stage leaves analysis and response unchanged, the response stage leaves
\* analysis and actions unchanged, each stage fills its own key, and no
\* record changes once the last stage has returned.
C22_SingleWriter ==
    [][/\ pc = "analyze" =>
            /\ state'.shared_memory.actions = state.shared_memory.actions
            /\ state'.shared_memory.response = state.shared_memory.response
            /\ ~IsEmptyDict(state'.shared_memory.analysis)
       /\ pc = "plan_actions" =>
            /\ state'.shared_memory.analysis = state.shared_memory.analysis
            /\ state'.shared_memory.response = state.shared_memory.response
            /\ ~IsEmptyDict(state'.shared_memory.actions)
       /\ pc = "draft_response" =>
            /\ state'.shared_memory.analysis = state.shared_memory.analysis
            /\ state'.shared_memory.actions = state.shared_memory.actions
            /\ ~IsEmptyDict(state'.shared_memory.response)
       /\ pc \in {"END", "returned"} => state'.shared_memory = state.shared_memory]_vars

C22_Witness ==
    /\ pc = "returned"
    /\ ran = Stages
    /\ path = "fallback"
    /\ state.shared_memory.analysis.severity_level = Str("critical")
    /\ state.shared_memory.actions.assigned_department = Str("Guest Relations Department")
    /\ state.shared_memory.response.response_type = Str("fallback")

\* C23: every response record the response stage writes has a
\* guest_response of at least 50 characters: generated text that is shorter
\* than 50 characters once blanks and the fence are stripped gives the
\* fallback, and both fallback templates have at least 50 characters for
\* any guest name (the empty one too), department and ETA.
C23_Stripped(q) ==
    LET text == Strip(q)
    IN  IF Len(text) > 0 /\ Head(text) = FENCE
        THEN Strip(IF Len(Split(text)) > 1 THEN Split(text)[2] ELSE text)
        ELSE text

C23_ResponseLongEnough ==
    /\ HasRun("draft_response") =>
          /\ state.shared_memory.response.guest_response.t = "str"
          /\ Len(state.shared_memory.response.guest_response.v) >= 50
          /\ (gen.kind = "content" /\ CharLen(C23_Stripped(gen.content)) < 50) =>
                 state.shared_memory.response.response_type = Str("fallback")
          /\ (gen.kind = "content" /\ CharLen(C23_Stripped(gen.content)) >= 50) =>
                 state.shared_memory.response.guest_response =
                     Str(Join(C23_Stripped(gen.content)))
    /\ \A name \in {"", "Rahul Mehta"}, department, eta \in {"", "Engineering", "soon"} :
          /\ Len(ThankYouFallback(name)) >= 50
          /\ Len(ApologyFallback(name, department, eta)) >= 50

C23_Witness ==
    /\ pc = "END"
    /\ gen.kind = "content"
    /\ gen.content = <<FENCE, Word25, FENCE, Word30, Word30>>
    /\ state.guest_name = ""
    /\ state.shared_memory.response.response_type = Str("fallback")
    /\ Len(state.shared_memory.response.guest_response.v) >= 50

\* C24: when the response stage falls back, the template is chosen by the
\* sentiment of the analysis alone: with a sentiment_score above 0.5,
\* whatever the category, the fallback is the thank-you message, and
\* otherwise the apology naming the department and the ETA of the plan.
C24_Apology ==
    Str(ApologyFallback(state.guest_name,
                        state.shared_memory.actions.assigned_department.v,
                        state.shared_memory.actions.estimated_resolution_time.v))

C24_FallbackBySentiment ==
    (HasRun("draft_response")
        /\ state.shared_memory.response.response_type = Str("fallback")) =>
        state.shared_memory.response.guest_response =
            IF state.shared_memory.analysis.sentiment_score.v > 5
            THEN Str(ThankYouFallback(state.guest_name))
            ELSE C24_Apology

\* C24 (amended): when the response stage falls back, the fallback is the
\* thank-you message exactly when the analysis has a sentiment_score above
\* 0.5 and the category positive_feedback; in every other case, a positive
\* sentiment with another category included, it is the apology naming the
\* department and the ETA of the plan.
C24_FallbackByPositiveFeedback ==
    (HasRun("draft_response")
        /\ state.shared_memory.response.response_type = Str("fallback")) =>
        state.shared_memory.response.guest_response =
            IF state.shared_memory.analysis.sentiment_score.v > 5
               /\ state.shared_memory.analysis.category = Str("positive_feedback")
            THEN Str(ThankYouFallback(state.guest_name))
            ELSE C24_Apology

C24_Witness ==
    /\ pc = "END"
    /\ state.shared_memory.response.response_type = Str("fallback")
    /\ state.shared_memory.analysis.sentiment_score = Num(6)
    /\ state.shared_memory.analysis.category = Str("general")
    /\ state.shared_memory.actions.assigned_department = Str("Engineering")
    /\ state.shared_memory.response.guest_response =
           Str(ApologyFallback(state.guest_name, "Engineering", "30 minutes"))

\* C25: in every normal result each flattened field equals the field of the
\* nested record it duplicates (severity_level, category, sentiment_score,
\* escalation_required of analysis; assigned_department,
\* estimated_resolution_time, compensation_recommended of actions;
\* guest_response, response_type of response), and none of them is null.
C25_FlatAnalysis == {"severity_level", "category", "sentiment_score", "escalation_required"}

C25_FlatActions ==
    {"assigned_department", "estimated_resolution_time", "compensation_recommended"}

C25_FlatResponse == {"guest_response", "response_type"}

C25_FlatEqualsNested ==
    /\ \A k \in C25_FlatAnalysis : result[k] = result.analysis.v[k]
    /\ \A k \in C25_FlatActions : result[k] = result.actions.v[k]
    /\ \A k \in C25_FlatResponse : result[k] = result.response.v[k]

C25_FlattenedNeverNull ==
    (pc = "returned" /\ ~escaped) =>
        /\ C25_FlatEqualsNested
        /\ \A k \in C25_FlatAnalysis \cup C25_FlatActions \cup C25_FlatResponse :
              result[k] \notin {Null, Absent}

\* C25 (amended): in every normal result each flattened field equals the
\* field of the nested record it duplicates, and none of them is null apart
\* from compensation_recommended, which is null when the plan recommends no
\* compensation and a text otherwise.
C25_FlattenedAsNested ==
    (pc = "returned" /\ ~escaped) =>
        /\ C25_FlatEqualsNested
        /\ \A k \in (C25_FlatAnalysis \cup C25_FlatActions \cup C25_FlatResponse)
                     \ {"compensation_recommended"} :
              result[k] \notin {Null, Absent}
        /\ result.compensation_recommended.t \in {"null", "str"}

C25_Witness ==
    /\ pc = "returned"
    /\ ~escaped
    /\ result.compensation_recommended = Null
    /\ result.actions.v.compensation_recommended = Null
    /\ result.assigned_department = Str("Engineering")
    /\ result.severity_level = Str("critical")

\* C27: the response_type of the response record is fallback exactly when
\* the response stage took its fallback path (the generative call raised,
\* or the text had fewer than 50 characters once stripped of blanks and
\* fence); otherwise it is positive_feedback exactly when the analysis has a
\* sentiment_score above 0.5 and the category positive_feedback, and
\* complaint in every other case.
C27_ResponseType ==
    HasRun("draft_response") =>
        LET fell_back == \/ gen.kind = "raise"
                         \/ CharLen(C23_Stripped(gen.content)) < 50
            positive == /\ state.shared_memory.analysis.sentiment_score.v > 5
                        /\ state.shared_memory.analysis.category = Str("positive_feedback")
        IN  /\ (path = "fallback") = fell_back
            /\ state.shared_memory.response.response_type =
                   IF fell_back THEN Str("fallback")
                   ELSE IF positive THEN Str("positive_feedback")
                   ELSE Str("complaint")

C27_Witness ==
    /\ pc = "END"
    /\ path = "success"
    /\ gen.content = <<FENCE, NL, Word30, SP, Word30, NL, FENCE>>
    /\ state.shared_memory.analysis.category = Str("positive_feedback")
    /\ state.shared_memory.analysis.sentiment_score = Num(6)
    /\ state.shared_memory.response.response_type = Str("positive_feedback")

\* C29: a failure while the history is persisted (the existing file
\* unreadable or not a JSON array, a directory or write error) never changes
\* the outcome of the run: process_complaint returns the normal result with
\* its three records and no workflow_failed, and a history file that could
\* not be read is left as it was.
C29_HistoryFailureHarmless ==
    [][pc = "END" =>
          /\ pc' = "returned"
          /\ ~escaped'
          /\ [result' EXCEPT !.processed_at = Absent] = BuildResult(state)
          /\ result'.workflow_failed = Absent
          /\ result'.error = Absent
          /\ ~IsEmptyDict(result'.analysis.v)
          /\ ~IsEmptyDict(result'.actions.v)
          /\ ~IsEmptyDict(result'.response.v)
          /\ history.status = "corrupt" => history' = history]_vars

C29_Witness ==
    /\ pc = "returned"
    /\ history.status = "corrupt"
    /\ result.processed_at = Absent
    /\ result.workflow_failed = Absent
    /\ result.response.t = "dict"
    /\ result.guest_response.t = "str"


\* C30: in degraded mode, for an analysis whose category names a mock
\* bucket, the passages the plan stage retrieves are the first three of that
\* category's bucket, whatever words the key issues hold.
C30_Analysis(s) ==
    LET sm == SharedGet(s, "analysis", AnalysisKeys)
    IN  IF IsEmptyDict(sm) THEN s.analysis ELSE sm

C30_OwnCategoryPolicies ==
    [][(pc \in {"direct", "plan_actions"} /\ ran' = Append(ran, "plan_actions")
          /\ policy_rag.has_mock_policies /\ policy_rag.vectorstore.is_none
          /\ ~QueryRaises(state)
          /\ C30_Analysis(state).category.t = "str"
          /\ \E i \in 1..Len(MockCategories) :
                 MockCategories[i] = C30_Analysis(state).category.v)
       => retrieved'.out = Returned(Prefix(mock_policies[C30_Analysis(state).category.v], 3))]_vars

\* C28: the history file is append-only.  Whenever no call is inside
\* store_complaint_history, every record a call logged as saved is in the
\* file, the records the file held before are still its first records, and
\* every record carries a processed_at stamp.
C28_NoStoreUnderWay ==
    \A c \in Runs : runs[c].pc \notin {"store_read", "store_open", "store_dump"}

C28_Saved == {c \in Runs : runs[c].saved}

C28_AppendOnly ==
    C28_NoStoreUnderWay =>
        /\ C28_Saved # {} =>
               /\ history.status = "array"
               /\ \A c \in C28_Saved :
                      \E i \in 1..Len(history.records) : history.records[i] = runs[c].result
               /\ Len(history.records) >= Len(before.records) + Cardinality(C28_Saved)
        /\ before.status = "array" =>
               /\ history.status = "array"
               /\ Len(history.records) >= Len(before.records)
               /\ SubSeq(history.records, 1, Len(before.records)) = before.records
        /\ history.status = "array" =>
               \A i \in 1..Len(history.records) : history.records[i].processed_at.t = "str"

\* C26: a run starts from the fresh state of its own arguments, with an
\* empty shared_memory, and two runs that were given the same arguments and
\* got the same generative outputs return the same result, whatever the
\* other calls did before or in between (the file system failing neither
\* of them, and the history file being readable before the first call).
C26_RunsIsolated ==
    /\ \A c \in Runs :
          runs[c].pc = WORKFLOW.entry =>
             /\ runs[c].state =
                    initial_state(runs[c].args[1], runs[c].args[2], runs[c].args[3],
                                  runs[c].args[4])
             /\ \A key \in {"analysis", "actions", "response"} :
                    IsEmptyDict(runs[c].state.shared_memory[key])
    /\ \A c, d \in Runs :
          (runs[c].pc = "returned" /\ runs[d].pc = "returned"
              /\ runs[c].args = runs[d].args /\ runs[c].got = runs[d].got
              /\ before.status # "corrupt"
              /\ runs[c].exc # "OSError" /\ runs[d].exc # "OSError")
          => runs[c].result = runs[d].result
====
